---- MODULE Spec2Model ----
(***************************************************************************)
(* Orchestration engine, task wrapper, session context and agents of the   *)
(* enterprise-investigation system (src/orchestrator/core.py,              *)
(* src/orchestrator/cache_manager.py, src/agents/*.py).                    *)
(*                                                                         *)
(* Numbers that are floats in the source (confidence scores) are kept in   *)
(* hundredths: 0.95 is 95, 1.0 is 100.                                     *)
(***************************************************************************)
EXTENDS Integers, Sequences, FiniteSets, TLC

\* ------------------------------------------------------------------------
\* Bounds of the model
\* ------------------------------------------------------------------------
\* longest dependency list a caller declares on one task
MaxDeps == 1
\* number of execute_session calls made on the engine
MaxSessions == 2
\* longest list handed to can_run (dependencies and completed_tasks)
MaxLen == 2
\* number of execute calls made on each agent
MaxRuns == 2
\* number of calls made on the CacheManager by callers other than the agents
MaxCacheCalls == 3

\* ------------------------------------------------------------------------
\* Program constants
\* ------------------------------------------------------------------------
DefaultMaxConcurrent == 5
DefaultTimeoutMinutes == 30
SecondsPerMinute == 60
DefaultMaxDepth == 3

TaskIds == {"t1", "t2", "t3"}

\* class TaskPriority; AgentTask.__init__ defaults to MEDIUM
TaskPriority == {2, 3}

SeqsUpTo(S, n) == UNION {[1..k -> S] : k \in 0..n}

VARIABLES
    engine,         \* the OrchestrationEngine object
    tasks,          \* the AgentTask objects constructed so far, by task_id
    sessions,       \* what each execute_session call returned, in call order
    can_run_call,   \* the last AgentTask.can_run call (arguments and result), <<>> before any
    context,        \* the TaskContext the agents of one session are executed against
    agent_state,    \* BaseAgent.state of each agent
    pc,             \* where each agent's execute coroutine stands
    pending,        \* the result AgentNormalization.execute holds across cache_result
    executions,     \* how many times each agent's execute was called
    returned,       \* what each agent's last finished execute returned, <<>> before any
    posted,         \* the last result each agent handed to post_execute, <<>> before any
    redis,          \* the cache backend: stored payload by cache key
    constructed,    \* the last AgentResult(...) a caller built directly: inputs and outcome
    cache,          \* the CacheManager object: whether self.redis is set, and self.stats
    cache_log,      \* the last CacheManager call or key expiry, <<>> before any
    calls,          \* history: how many times each CacheManager method was called
    shadow,         \* history: per cache key, the value of the last successful set still
                    \* standing, and the keys whose last set carried an explicit ttl=0
    sources,        \* the hand-built data of several sources a reconciliation is run on,
                    \* and the order the dict holding them iterates in
    detected,       \* the last ToolValidateConsistency.run call, <<>> before any
    resolver,       \* the ToolResolveConflicts object
    resolve_calls,  \* history: how many times the resolver was run
    resolved,       \* a resolution call (arguments and result) followed, once made,
                    \* by the same call made again
    score_call      \* the last _calculate_consistency_score call, <<>> before any

schedVars == <<engine, tasks, sessions, can_run_call>>
cacheVars == <<redis, cache, cache_log, calls, shadow>>
agentVars == <<context, agent_state, pc, pending, executions, returned, posted, redis,
               constructed, cache, cache_log, calls, shadow>>
toolVars == <<sources, detected, resolver, resolve_calls, resolved, score_call>>
vars == <<engine, tasks, sessions, can_run_call, context, agent_state, pc, pending,
          executions, returned, posted, redis, constructed, cache, cache_log, calls, shadow,
          sources, detected, resolver, resolve_calls, resolved, score_call>>

\* ------------------------------------------------------------------------
\* OrchestrationEngine
\* ------------------------------------------------------------------------
\* dict.get(key, default) on a config whose keys may be missing
ConfigGet(config, key, default) ==
    IF key \in DOMAIN config THEN config[key] ELSE default

\* configurations handed to the engine: each key given or left out
EngineConfigs ==
    { c \in UNION {[K -> {0, 1}] : K \in SUBSET {"max_concurrent_tasks",
                                                  "session_timeout_minutes"}} :
        /\ "max_concurrent_tasks" \in DOMAIN c => c["max_concurrent_tasks"] = 1
        /\ "session_timeout_minutes" \in DOMAIN c => c["session_timeout_minutes"] = 0 }

OrchestrationEngineInit(config) ==
    [ config               |-> config,
      running_tasks        |-> {},
      completed_tasks      |-> <<>>,
      failed_tasks         |-> <<>>,
      max_concurrent_tasks |-> ConfigGet(config, "max_concurrent_tasks", DefaultMaxConcurrent),
      session_timeout      |-> ConfigGet(config, "session_timeout_minutes", DefaultTimeoutMinutes)
                                 * SecondsPerMinute ]

\* ------------------------------------------------------------------------
\* AgentTask
\* ------------------------------------------------------------------------
AgentTaskInitRunning(task_id, priority) ==
    [ task_id      |-> task_id,
      priority     |-> priority,
      state        |-> "running",
      dependencies |-> <<>>,
      result       |-> "None",
      error        |-> "None",
      start_time   |-> "None",
      end_time     |-> "None" ]

AgentTaskInit(task_id, priority) ==
    [ task_id      |-> task_id,
      priority     |-> priority,
      state        |-> "pending",
      dependencies |-> <<>>,
      result       |-> "None",
      error        |-> "None",
      start_time   |-> "None",
      end_time     |-> "None" ]

\* `dep in completed_tasks` on a Python list: a left-to-right search
RECURSIVE ListContains(_, _)
ListContains(list, x) ==
    IF list = <<>> THEN FALSE
    ELSE IF Head(list) = x THEN TRUE
    ELSE ListContains(Tail(list), x)

RECURSIVE can_run_any(_, _)
can_run_any(dependencies, completed_tasks) ==
    IF dependencies = <<>> THEN TRUE
    ELSE ListContains(completed_tasks, Head(dependencies))
         \/ (Tail(dependencies) # <<>> /\ can_run_any(Tail(dependencies), completed_tasks))

\* all(dep in completed_tasks for dep in self.dependencies)
RECURSIVE can_run(_, _)
can_run(dependencies, completed_tasks) ==
    IF dependencies = <<>> THEN TRUE
    ELSE ListContains(completed_tasks, Head(dependencies))
         /\ can_run(Tail(dependencies), completed_tasks)

\* ------------------------------------------------------------------------
\* AgentResult
\* ------------------------------------------------------------------------
\* confidence scores are hundredths: 1.0 is Scale
Scale == 100

ValueError(message) == [kind |-> "ValueError", message |-> message]

AgentResultNoCheck(agent_name, success, data, confidence_score, execution_time, errors) ==
    [ kind             |-> "AgentResult",
      agent_name       |-> agent_name,
      success          |-> success,
      data             |-> data,
      confidence_score |-> confidence_score,
      execution_time   |-> execution_time,
      errors           |-> errors ]

AgentResultTimeCheckOnly(agent_name, success, data, confidence_score, execution_time, errors) ==
    IF execution_time < 0
    THEN ValueError("execution_time must be positive")
    ELSE AgentResultNoCheck(agent_name, success, data, confidence_score,
                            execution_time, errors)

\* the dataclass constructor followed by __post_init__: the record, or the
\* ValueError that __post_init__ raises
AgentResult(agent_name, success, data, confidence_score, execution_time, errors) ==
    IF ~(0 <= confidence_score /\ confidence_score <= Scale)
    THEN ValueError("confidence_score must be between 0.0 and 1.0")
    ELSE IF execution_time < 0
    THEN ValueError("execution_time must be positive")
    ELSE AgentResultNoCheck(agent_name, success, data, confidence_score,
                            execution_time, errors)

IsResult(r) == r.kind = "AgentResult"

\* ------------------------------------------------------------------------
\* TaskContext as the agents use it, and BaseAgent's hooks
\* ------------------------------------------------------------------------
Agents == {"normalization", "identification", "validation"}

\* dict[key] = value; a new key goes last in the dict's iteration order
Put(f, k, v) == [x \in DOMAIN f \cup {k} |-> IF x = k THEN v ELSE f[x]]

\* TaskContext(...) with its default_factory fields; has_cache tells whether a
\* connected CacheManager was handed in as `cache`
TaskContext(enterprise_name, max_depth, has_cache) ==
    [ enterprise_name |-> enterprise_name,
      current_depth   |-> 0,
      max_depth       |-> max_depth,
      collected_data  |-> <<>>,
      collected_order |-> <<>>,
      metrics         |-> <<>>,
      errors          |-> <<>>,
      warnings        |-> <<>>,
      has_cache       |-> has_cache ]

\* f"{name}_confidence" and f"{name}_execution_time"
MetricKey(name, what) == <<name, what>>

PostExecuteContextOverwrite(ctx, name, result) ==
    [ ctx EXCEPT
        !.collected_data  = [x \in {name} |-> result.data],
        !.collected_order = <<name>>,
        !.metrics = Put(Put(<<>>, MetricKey(name, "confidence"), result.confidence_score),
                        MetricKey(name, "execution_time"), result.execution_time) ]

PostExecuteContextNoTiming(ctx, name, result) ==
    [ ctx EXCEPT
        !.collected_data  = Put(@, name, result.data),
        !.collected_order = IF name \in DOMAIN ctx.collected_data THEN @ ELSE Append(@, name),
        !.metrics = Put(@, MetricKey(name, "confidence"), result.confidence_score) ]

\* the context part of BaseAgent.post_execute; it holds no await, so no other
\* coroutine runs between its three writes
PostExecuteContext(ctx, name, result) ==
    [ ctx EXCEPT
        !.collected_data  = Put(@, name, result.data),
        !.collected_order = IF name \in DOMAIN ctx.collected_data THEN @ ELSE Append(@, name),
        !.metrics = Put(Put(@, MetricKey(name, "confidence"), result.confidence_score),
                        MetricKey(name, "execution_time"), result.execution_time) ]

\* the agent-state part of post_execute
PostExecuteState(result) == IF result.success THEN "completed" ELSE "error"

\* ------------------------------------------------------------------------
\* The three agents' bodies
\* ------------------------------------------------------------------------
\* the enterprise names sessions are run for; the last one is blank
AgentEnterpriseNames == {"LVMH", "ACME SARL", "   "}

\* `TOKEN in name.upper()` for the names above
NameHas(name, token) == name \in {"LVMH", "LVMH GROUP"} /\ token = "LVMH"

\* `not name or not name.strip()`
IsBlank(name) == name \in {"", "   "}

FailureResultNoErrors(name, execution_time, message) ==
    AgentResult(name, FALSE, <<>>, 0, execution_time, <<>>)

\* except Exception: AgentResult(success=False, data={}, confidence_score=0.0, ...)
FailureResult(name, execution_time, message) ==
    AgentResult(name, FALSE, <<>>, 0, execution_time, <<message>>)

\* DataValidationMixin.validate_data_consistency, the required-fields part (the
\* type check only looks at fields that are present)
RECURSIVE MissingRequired(_, _)
MissingRequired(data, required_fields) ==
    IF required_fields = <<>> THEN <<>>
    ELSE (IF Head(required_fields) \notin DOMAIN data \/ data[Head(required_fields)] = ""
          THEN <<"Missing required field">> ELSE <<>>)
         \o MissingRequired(data, Tail(required_fields))

\* AgentNormalization.validate_input
NormalizationValidateInput(ctx) == ~IsBlank(ctx.enterprise_name)

\* _normalize_name_fake: strip, upper-case, drop the legal form; `base_name or normalized`
NormalizeNameFake(raw_name) ==
    IF raw_name = "ACME SARL" THEN "ACME" ELSE raw_name

\* _match_enterprise_fake: best match and its confidence
MatchEnterpriseFake(raw_name) ==
    IF NameHas(raw_name, "LVMH") THEN [siren |-> "775670417", confidence |-> 95]
    ELSE IF NameHas(raw_name, "GOOGLE") THEN [siren |-> "443061841", confidence |-> 90]
    ELSE IF NameHas(raw_name, "MICROSOFT") THEN [siren |-> "327733184", confidence |-> 88]
    ELSE [siren |-> "123456789", confidence |-> 60]

NormalizationRequiredFields == <<"enterprise_name">>

\* the body of AgentNormalization.execute between validate_input and the result
NormalizationResult(ctx, execution_time) ==
    LET match == MatchEnterpriseFake(ctx.enterprise_name)
        data  == [ original_name    |-> ctx.enterprise_name,
                   normalized_name  |-> NormalizeNameFake(ctx.enterprise_name),
                   siren            |-> match.siren,
                   confidence_score |-> match.confidence ]
        errors == MissingRequired(data, NormalizationRequiredFields)
    IN  AgentResult("normalization", errors = <<>>, data, data.confidence_score,
                    execution_time, errors)

\* AgentIdentification.validate_input
IdentificationValidateInput(ctx) ==
    /\ "normalization" \in DOMAIN ctx.collected_data
    /\ "normalized_name" \in DOMAIN ctx.collected_data["normalization"]
    /\ ctx.collected_data["normalization"].normalized_name # ""

\* _find_siren_fake
FindSirenFake(company_name) ==
    IF NameHas(company_name, "LVMH") THEN [siren |-> "775670417", confidence |-> 95]
    ELSE IF NameHas(company_name, "GOOGLE") THEN [siren |-> "443061841", confidence |-> 90]
    ELSE IF NameHas(company_name, "MICROSOFT") THEN [siren |-> "327733184", confidence |-> 88]
    ELSE [siren |-> "123456789", confidence |-> 60]

\* f'https://www.{clean_name}.com' with clean_name the lower-cased name without spaces
GeneratedUrl(company_name) ==
    IF company_name = "ACME" THEN "https://www.acme.com" ELSE "https://www.other.com"

\* _find_website_fake
FindWebsiteFake(company_name) ==
    IF NameHas(company_name, "LVMH") THEN [url |-> "https://www.lvmh.fr", confidence |-> 95]
    ELSE IF NameHas(company_name, "GOOGLE") THEN [url |-> "https://www.google.fr", confidence |-> 98]
    ELSE IF NameHas(company_name, "MICROSOFT")
    THEN [url |-> "https://www.microsoft.com/fr-fr", confidence |-> 90]
    ELSE [url |-> GeneratedUrl(company_name), confidence |-> 50]

Min(a, b) == IF a <= b THEN a ELSE b
Max(a, b) == IF a >= b THEN a ELSE b

IdentificationTryOwnSiren(ctx, execution_time) ==
    LET nd == IF "normalization" \in DOMAIN ctx.collected_data
              THEN ctx.collected_data["normalization"] ELSE <<>>
    IN  IF DOMAIN nd = {} THEN ValueError("Normalization data required")
        ELSE IF "normalized_name" \notin DOMAIN nd THEN ValueError("KeyError normalized_name")
        ELSE IF "original_name" \notin DOMAIN nd THEN ValueError("KeyError original_name")
        ELSE
          LET existing == IF "siren" \in DOMAIN nd THEN nd.siren ELSE ""
              found    == FindSirenFake(nd.normalized_name)
              siren    == "123456789"
              conf     == IF existing # "" THEN 90 ELSE found.confidence
              web      == FindWebsiteFake(nd.normalized_name)
              data     == [ siren            |-> siren,
                            url              |-> web.url,
                            normalized_name  |-> nd.normalized_name,
                            original_name    |-> nd.original_name,
                            confidence_score |-> Min(conf, web.confidence) ]
          IN  AgentResult("identification", siren # "", data, data.confidence_score,
                          execution_time, <<>>)

\* the try block of AgentIdentification.execute: the result it builds or the
\* exception it raises (execute does not call validate_input)
IdentificationTry(ctx, execution_time) ==
    LET nd == IF "normalization" \in DOMAIN ctx.collected_data
              THEN ctx.collected_data["normalization"] ELSE <<>>
    IN  IF DOMAIN nd = {} THEN ValueError("Normalization data required")
        ELSE IF "normalized_name" \notin DOMAIN nd THEN ValueError("KeyError normalized_name")
        ELSE IF "original_name" \notin DOMAIN nd THEN ValueError("KeyError original_name")
        ELSE
          LET existing == IF "siren" \in DOMAIN nd THEN nd.siren ELSE ""
              found    == FindSirenFake(nd.normalized_name)
              siren    == IF existing # "" THEN existing ELSE found.siren
              conf     == IF existing # "" THEN 90 ELSE found.confidence
              web      == FindWebsiteFake(nd.normalized_name)
              data     == [ siren            |-> siren,
                            url              |-> web.url,
                            normalized_name  |-> nd.normalized_name,
                            original_name    |-> nd.original_name,
                            confidence_score |-> Min(conf, web.confidence) ]
          IN  AgentResult("identification", siren # "", data, data.confidence_score,
                          execution_time, <<>>)

\* AgentValidation.validate_input
ValidationValidateInput(ctx) == Cardinality(DOMAIN ctx.collected_data) >= 2

HasSiren(cd, source) == "siren" \in DOMAIN cd[source] /\ cd[source].siren # ""

\* _detect_conflicts_fake, the siren loop: sources are visited in the dict's
\* order; `seen` maps each siren value to the first source that reported it
RECURSIVE DetectSirenConflicts(_, _, _)
DetectSirenConflicts(cd, order, seen) ==
    IF order = <<>> THEN <<>>
    ELSE LET source == Head(order) IN
         IF ~HasSiren(cd, source)
         THEN DetectSirenConflicts(cd, Tail(order), seen)
         ELSE LET siren == cd[source].siren IN
              IF siren \in DOMAIN seen
              THEN (IF seen[siren] # source
                    THEN << [ type |-> "siren_mismatch", field |-> "siren",
                              value1 |-> siren, source1 |-> seen[siren],
                              value2 |-> siren, source2 |-> source,
                              severity |-> "low" ] >>
                    ELSE <<>>)
                   \o DetectSirenConflicts(cd, Tail(order), seen)
              ELSE DetectSirenConflicts(cd, Tail(order), Put(seen, siren, source))

\* data.get('confidence_score', 0)
ConfidenceOf(data) == IF "confidence_score" \in DOMAIN data THEN data.confidence_score ELSE 0

LowConfidenceThreshold == 70

\* _detect_conflicts_fake, the low-confidence check on the two producers
DetectLowConfidence(cd) ==
    IF /\ "normalization" \in DOMAIN cd
       /\ "identification" \in DOMAIN cd
       /\ ConfidenceOf(cd["normalization"]) < LowConfidenceThreshold
       /\ ConfidenceOf(cd["identification"]) < LowConfidenceThreshold
    THEN << [ type |-> "low_confidence", field |-> "confidence",
              value1 |-> ConfidenceOf(cd["normalization"]), source1 |-> "normalization",
              value2 |-> ConfidenceOf(cd["identification"]), source2 |-> "identification",
              severity |-> "medium" ] >>
    ELSE <<>>

DetectConflictsFake(ctx) ==
    DetectSirenConflicts(ctx.collected_data, ctx.collected_order, <<>>)
        \o DetectLowConfidence(ctx.collected_data)

BaseScoreCap == 80
BaseScorePerSource == 20
ConflictPenalty == 10
ResolutionBonus == 5

CalculateConsistencyScoreBonusFirst(n_sources, n_conflicts, n_resolved) ==
    IF n_sources = 0 THEN 0
    ELSE Max(0, Min(Scale, Min(BaseScoreCap, n_sources * BaseScorePerSource)
                           + n_resolved * ConflictPenalty
                           - n_conflicts * ResolutionBonus))

\* _calculate_consistency_score
CalculateConsistencyScore(n_sources, n_conflicts, n_resolved) ==
    IF n_sources = 0 THEN 0
    ELSE Max(0, Min(Scale, Min(BaseScoreCap, n_sources * BaseScorePerSource)
                           - n_conflicts * ConflictPenalty
                           + n_resolved * ResolutionBonus))

\* _resolve_conflicts_fake, one turn of its loop; the average of two
\* confidences is kept as the fraction num/den
ResolveConflictFake(conflict) ==
    IF conflict.type = "siren_mismatch"
    THEN [ conflict_id |-> conflict.type, resolution_method |-> "keep_first_source",
           resolved_value |-> conflict.value1, confidence |-> 80 ]
    ELSE IF conflict.type = "low_confidence"
    THEN [ conflict_id |-> conflict.type, resolution_method |-> "average_confidence",
           resolved_value |-> [num |-> conflict.value1 + conflict.value2, den |-> 2],
           confidence |-> 80 ]
    ELSE [ conflict_id |-> conflict.type, resolution_method |-> "fake_auto_resolution",
           resolved_value |-> [kind |-> "None"], confidence |-> 80 ]

\* _resolve_conflicts_fake: one resolution per conflict, in order
ResolveConflictsFake(conflicts) ==
    [i \in 1..Len(conflicts) |-> ResolveConflictFake(conflicts[i])]

\* the try block of AgentValidation.execute after validate_input held
ValidationResult(ctx, execution_time) ==
    LET conflicts == DetectConflictsFake(ctx)
        resolved_conflicts == ResolveConflictsFake(conflicts)
        score == CalculateConsistencyScore(Cardinality(DOMAIN ctx.collected_data),
                                           Len(conflicts), Len(resolved_conflicts))
        data == [ conflicts_detected |-> conflicts,
                  conflicts_resolved |-> resolved_conflicts,
                  consistency_score  |-> score ]
    IN  AgentResult("validation", TRUE, data, score, execution_time, <<>>)

\* ------------------------------------------------------------------------
\* CacheManager (src/orchestrator/cache_manager.py) over a Redis backend
\* ------------------------------------------------------------------------
CompressionThreshold == 1024

\* None, as a cache value
None == [kind |-> "None"]

\* CacheManager.__init__: no connection yet, counters at zero
CacheManagerInit(connected) ==
    [ connected |-> connected,
      stats     |-> [hits |-> 0, misses |-> 0, sets |-> 0, deletes |-> 0] ]

\* the default configuration of _load_config: cache_policy by category
CachePolicy(category) ==
    CASE category = "enterprise_data"    -> [ttl |-> [n |-> 7, unit |-> "d"], compress |-> TRUE]
      [] category = "agent_results"      -> [ttl |-> [n |-> 12, unit |-> "h"], compress |-> TRUE]
      [] category = "validation_results" -> [ttl |-> [n |-> 6, unit |-> "h"], compress |-> FALSE]
      [] OTHER -> <<>>

\* the default configuration of _load_config: key_prefixes by category
KeyPrefix(category) ==
    CASE category = "enterprise"   -> "ent:"
      [] category = "agent_result" -> "agent:"
      [] category = "session"      -> "sess:"
      [] category = "validation"   -> "valid:"
      [] OTHER -> ""

\* _get_ttl_seconds on a text such as '12h', kept as number and unit
GetTtlSeconds(ttl_str) ==
    CASE ttl_str.unit = "s" -> ttl_str.n
      [] ttl_str.unit = "m" -> ttl_str.n * 60
      [] ttl_str.unit = "h" -> ttl_str.n * 3600
      [] ttl_str.unit = "d" -> ttl_str.n * 86400

\* _build_key: f"{prefix}{key}"; a key is kept as the sequence of its parts
BuildKey(category, key) == <<KeyPrefix(category)>> \o key

\* _should_compress, on the byte length of the serialized data
ShouldCompress(data_len, policy) ==
    IF ~ConfigGet(policy, "compress", FALSE) THEN FALSE
    ELSE data_len > CompressionThreshold

\* gzip.compress
CompressData(data) == [gzip |-> data]

\* _decompress_data: gzip.decompress, and the data as they are when that fails
DecompressData(data) == IF "gzip" \in DOMAIN data THEN data.gzip ELSE data

\* str(result) of a dataclass, as json.dumps(result, default=str) encodes it
\* and json.loads hands it back
CachedText(result) == [kind |-> "str", text |-> result]

\* what json.dumps(data, default=str) encodes: a dict or a text as it is, any
\* other object (a dataclass such as AgentResult) as the text str(object)
JsonDefault(data) ==
    IF data.kind \in {"dict", "str", "None"} THEN data
    ELSE CachedText(data)

\* _serialize_data
SerializeData(data) == [json |-> JsonDefault(data)]

\* _deserialize_data: json.loads
DeserializeData(data) == data.json

\* CacheManager.get. `fails` tells whether the backend call raises.
CacheGetOutcomeNoExcept(mgr, store, category, key, fails) ==
    IF ~mgr.connected
    THEN [result |-> None, raised |-> FALSE, stats |-> mgr.stats]
    ELSE LET cache_key == BuildKey(category, key) IN
         IF fails
         THEN [ result |-> None, raised |-> TRUE, stats |-> mgr.stats ]
         ELSE IF cache_key \notin DOMAIN store
         THEN [ result |-> None, raised |-> FALSE,
                stats  |-> [mgr.stats EXCEPT !.misses = @ + 1] ]
         ELSE [ result |-> DeserializeData(DecompressData(store[cache_key])),
                raised |-> FALSE,
                stats  |-> [mgr.stats EXCEPT !.hits = @ + 1] ]

CacheGetOutcome(mgr, store, category, key, fails) ==
    IF ~mgr.connected
    THEN [result |-> None, raised |-> FALSE, stats |-> mgr.stats]
    ELSE LET cache_key == BuildKey(category, key) IN
         IF fails
         THEN [ result |-> None, raised |-> FALSE,
                stats  |-> [mgr.stats EXCEPT !.misses = @ + 1] ]
         ELSE IF cache_key \notin DOMAIN store
         THEN [ result |-> None, raised |-> FALSE,
                stats  |-> [mgr.stats EXCEPT !.misses = @ + 1] ]
         ELSE [ result |-> DeserializeData(DecompressData(store[cache_key])),
                raised |-> FALSE,
                stats  |-> [mgr.stats EXCEPT !.hits = @ + 1] ]

\* CacheManager.set. `ttl` is <<>> for None and <<seconds>> otherwise; data_len
\* is the byte length of the serialized value. The backend's SETEX refuses an
\* expire time that is not positive, as it refuses any call when it fails: the
\* key keeps what it held.
CacheSetOutcome(mgr, store, category, key, value, ttl, data_len, fails) ==
    IF ~mgr.connected
    THEN [result |-> FALSE, raised |-> FALSE, stats |-> mgr.stats, store |-> store]
    ELSE LET cache_key == BuildKey(category, key)
             policy == CachePolicy(category)
             serialized_data == SerializeData(value)
             final_data == IF ShouldCompress(data_len, policy)
                           THEN CompressData(serialized_data)
                           ELSE serialized_data
             seconds == IF ttl = <<>>
                        THEN GetTtlSeconds(ConfigGet(policy, "ttl", [n |-> 1, unit |-> "h"]))
                        ELSE ttl[1]
         IN  IF fails \/ seconds <= 0
             THEN [result |-> FALSE, raised |-> FALSE, stats |-> mgr.stats, store |-> store]
             ELSE [ result |-> TRUE, raised |-> FALSE,
                    stats  |-> [mgr.stats EXCEPT !.sets = @ + 1],
                    store  |-> Put(store, cache_key, final_data) ]

\* the store without some keys
Without(store, keys) == [k \in DOMAIN store \ keys |-> store[k]]

\* CacheManager.delete
CacheDeleteOutcome(mgr, store, category, key, fails) ==
    IF ~mgr.connected
    THEN [result |-> FALSE, raised |-> FALSE, stats |-> mgr.stats, store |-> store]
    ELSE LET cache_key == BuildKey(category, key) IN
         IF fails
         THEN [result |-> FALSE, raised |-> FALSE, stats |-> mgr.stats, store |-> store]
         ELSE [ result |-> cache_key \in DOMAIN store, raised |-> FALSE,
                stats  |-> [mgr.stats EXCEPT !.deletes = @ + 1],
                store  |-> Without(store, {cache_key}) ]

\* the backend's KEYS on a pattern that is a literal key or the prefix and '*'
PatternMatches(cache_pattern, stored_key) ==
    IF Len(cache_pattern) = 2 /\ cache_pattern[2] = "*"
    THEN cache_pattern[1] = "" \/ cache_pattern[1] = stored_key[1]
    ELSE cache_pattern = stored_key

\* CacheManager.invalidate_pattern
CacheInvalidateOutcome(mgr, store, category, pattern, fails) ==
    IF ~mgr.connected
    THEN [result |-> 0, raised |-> FALSE, stats |-> mgr.stats, store |-> store]
    ELSE LET cache_pattern == BuildKey(category, pattern)
             keys == {k \in DOMAIN store : PatternMatches(cache_pattern, k)}
         IN  IF fails
             THEN [result |-> 0, raised |-> FALSE, stats |-> mgr.stats, store |-> store]
             ELSE [ result |-> Cardinality(keys), raised |-> FALSE, stats |-> mgr.stats,
                    store  |-> Without(store, keys) ]

GetStatsRateOverMisses(mgr, fails) ==
    [ hits         |-> mgr.stats.hits,
      misses       |-> mgr.stats.misses,
      hit_rate     |-> IF mgr.stats.hits + mgr.stats.misses > 0
                       THEN [num |-> mgr.stats.hits, den |-> mgr.stats.misses]
                       ELSE [num |-> 0, den |-> 1],
      sets         |-> mgr.stats.sets,
      deletes      |-> mgr.stats.deletes,
      redis_memory |-> IF mgr.connected /\ ~fails THEN "used_memory_human" ELSE "N/A" ]

\* CacheManager.get_stats; hit_rate, a float quotient, is kept as the fraction
\* num/den. `fails` tells whether the backend's INFO call raises (the bare
\* except swallows it).
GetStats(mgr, fails) ==
    [ hits         |-> mgr.stats.hits,
      misses       |-> mgr.stats.misses,
      hit_rate     |-> IF mgr.stats.hits + mgr.stats.misses > 0
                       THEN [num |-> mgr.stats.hits,
                             den |-> mgr.stats.hits + mgr.stats.misses]
                       ELSE [num |-> 0, den |-> 1],
      sets         |-> mgr.stats.sets,
      deletes      |-> mgr.stats.deletes,
      redis_memory |-> IF mgr.connected /\ ~fails THEN "used_memory_human" ELSE "N/A" ]

\* ------------------------------------------------------------------------
\* ToolValidateConsistency (src/tools/tool_validate_consistency.py)
\* ------------------------------------------------------------------------
TestSiren == "123456789"
OtherSiren == "987654321"
\* the first siren followed by a blank
PaddedSiren == "123456789 "

\* str.strip() on the strings of the model
Strip(value) == IF value = PaddedSiren THEN TestSiren ELSE value

\* str.upper() on the names of the model
Upper(value) ==
    CASE value = "Apple"      -> "APPLE"
      [] value = "Apple Inc"  -> "APPLE INC"
      [] value = "Apple SARL" -> "APPLE SARL"
      [] OTHER                -> value

\* lower(), strip(), rstrip('/') and replace('www.', '') on the URLs of the model
NormalizeUrl(value) ==
    IF value = "https://www.apple.com" THEN "https://apple.com" ELSE value

\* _values_are_consistent; a confidence_score is a number, and str() of two
\* different numbers of the model gives two different strings
ValuesAreConsistent(value1, value2, field) ==
    IF value1 = value2 THEN TRUE
    ELSE IF field = "name" THEN Strip(Upper(value1)) = Strip(Upper(value2))
    ELSE IF field = "url" THEN NormalizeUrl(value1) = NormalizeUrl(value2)
    ELSE IF field = "confidence_score" THEN FALSE
    ELSE Strip(value1) = Strip(value2)

\* _get_conflict_severity
ConflictSeverity(field) ==
    IF field \in {"siren", "id"} THEN "critical"
    ELSE IF field \in {"name", "url"} THEN "important"
    ELSE "minor"

\* _detect_conflicts, the loop over the fields two sources have in common;
\* `fields` is the order the set of common fields iterates in
RECURSIVE DetectFieldConflicts(_, _, _, _)
DetectFieldConflicts(data_sources, source1, source2, fields) ==
    IF fields = <<>> THEN <<>>
    ELSE LET field == Head(fields) IN
         (IF /\ field \in DOMAIN data_sources[source1]
             /\ field \in DOMAIN data_sources[source2]
             /\ ~ValuesAreConsistent(data_sources[source1][field],
                                     data_sources[source2][field], field)
          THEN << [ field    |-> field,
                    source1  |-> source1,
                    value1   |-> data_sources[source1][field],
                    source2  |-> source2,
                    value2   |-> data_sources[source2][field],
                    severity |-> ConflictSeverity(field) ] >>
          ELSE <<>>)
         \o DetectFieldConflicts(data_sources, source1, source2, Tail(fields))

\* _detect_conflicts, the two loops over the pairs i < j of list(data_sources.keys())
RECURSIVE DetectPairs(_, _, _, _, _)
DetectPairs(data_sources, source_list, fields, i, j) ==
    IF i > Len(source_list) THEN <<>>
    ELSE IF j > Len(source_list)
    THEN DetectPairs(data_sources, source_list, fields, i + 1, i + 2)
    ELSE DetectFieldConflicts(data_sources, source_list[i], source_list[j], fields)
         \o DetectPairs(data_sources, source_list, fields, i, j + 1)

\* _detect_conflicts
DetectConflicts(data_sources, source_list, fields) ==
    DetectPairs(data_sources, source_list, fields, 1, 2)

\* `if value and str(value).strip()`
Filled(value, field) ==
    IF field = "confidence_score" THEN value # 0 ELSE ~IsBlank(value)

\* the penalty loop of _calculate_quality_score, in hundredths
RECURSIVE ConflictPenaltySum(_)
ConflictPenaltySum(conflicts) ==
    IF conflicts = <<>> THEN 0
    ELSE (IF Head(conflicts).severity = "critical" THEN 30
          ELSE IF Head(conflicts).severity = "important" THEN 20
          ELSE 10)
         + ConflictPenaltySum(Tail(conflicts))

\* the completeness loop of _calculate_quality_score: how many fields the
\* sources hold (filled = FALSE) or hold with a value (filled = TRUE)
RECURSIVE CountFields(_, _, _)
CountFields(data_sources, source_list, filled) ==
    IF source_list = <<>> THEN 0
    ELSE LET source_data == data_sources[Head(source_list)] IN
         Cardinality({f \in DOMAIN source_data : ~filled \/ Filled(source_data[f], f)})
         + CountFields(data_sources, Tail(source_list), filled)

\* _calculate_quality_score, in hundredths, as the fraction num/den
\* (the completeness ratio is not a whole number of hundredths)
CalculateQualityScore(data_sources, source_list, conflicts) ==
    IF source_list = <<>> THEN [num |-> 0, den |-> 1]
    ELSE LET base_score == Min(Len(source_list), 3) * 10
             den        == Max(CountFields(data_sources, source_list, FALSE), 1)
             filled     == CountFields(data_sources, source_list, TRUE)
             final      == (base_score - ConflictPenaltySum(conflicts)) * den + 40 * filled
         IN  [num |-> Max(0, Min(Scale * den, final)), den |-> den]

\* ToolValidateConsistency.run, execution_time left out; source_list is
\* list(data_sources.keys())
ToolValidateRun(data_sources, source_list, fields) ==
    IF Len(source_list) < 2
    THEN [ conflicts     |-> <<>>,
           is_consistent |-> TRUE,
           quality_score |-> [num |-> 50, den |-> 1],
           error         |-> "Besoin d'au moins 2 sources pour validation" ]
    ELSE LET conflicts == DetectConflicts(data_sources, source_list, fields) IN
         [ conflicts     |-> conflicts,
           is_consistent |-> Len(conflicts) = 0,
           quality_score |-> CalculateQualityScore(data_sources, source_list, conflicts),
           sources_count |-> Len(source_list) ]

\* ------------------------------------------------------------------------
\* ToolResolveConflicts (src/tools/tool_resolve_conflicts.py)
\* ------------------------------------------------------------------------
\* self.source_priorities.get(source, 0.3)
UnknownPriority == 30

\* ToolResolveConflicts.__init__
ToolResolveConflictsInit ==
    [ name              |-> "resolve_conflicts",
      source_priorities |-> [ inpi |-> 90, official |-> 80, api |-> 70, web |-> 60,
                              manual |-> 50, unknown |-> UnknownPriority ] ]

PriorityOf(self, source) ==
    IF source \in DOMAIN self.source_priorities
    THEN self.source_priorities[source] ELSE UnknownPriority

\* the loops of _resolve_by_source_priority and _resolve_by_confidence: the
\* index of the first candidate whose score is above every score before it,
\* starting from best_score; 0 if there is none
RECURSIVE FoldBest(_, _, _, _)
FoldBest(scores, i, best, best_score) ==
    IF i > Len(scores) THEN best
    ELSE IF scores[i] > best_score
    THEN FoldBest(scores, i + 1, i, scores[i])
    ELSE FoldBest(scores, i + 1, best, best_score)

ResolveBySourcePriorityFirst(self, conflict) ==
    [ field         |-> conflict.field,
      chosen_value  |-> conflict.values[1].value,
      chosen_source |-> conflict.values[1].source,
      reason        |-> "Source prioritaire",
      confidence    |-> PriorityOf(self, conflict.values[1].source),
      method        |-> "source_priority" ]

\* _resolve_by_source_priority
ResolveBySourcePriority(self, conflict) ==
    LET values == conflict.values
        scores == [i \in 1..Len(values) |-> PriorityOf(self, values[i].source)]
        best   == FoldBest(scores, 1, 0, 0 - 1)
    IN  [ field         |-> conflict.field,
          chosen_value  |-> IF best = 0 THEN None ELSE values[best].value,
          chosen_source |-> IF best = 0 THEN None ELSE values[best].source,
          reason        |-> "Source prioritaire",
          confidence    |-> IF best = 0 THEN 0 - 1 ELSE scores[best],
          method        |-> "source_priority" ]

\* _resolve_by_confidence
ResolveByConfidence(self, conflict) ==
    LET values == conflict.values
        scores == [i \in 1..Len(values) |-> values[i].confidence]
        best   == FoldBest(scores, 1, 0, 0 - 1)
    IN  [ field         |-> conflict.field,
          chosen_value  |-> IF best = 0 THEN None ELSE values[best].value,
          chosen_source |-> IF best = 0 THEN None ELSE values[best].source,
          reason        |-> "Confiance la plus elevee",
          confidence    |-> IF best = 0 THEN 0 - 1 ELSE scores[best],
          method        |-> "confidence" ]

\* str(value).startswith('https://') on the URLs of the model
StartsWithHttps(value) == value \in {"https://www.apple.com", "https://apple.com"}

IsHttpsCandidate(value_info) == StartsWithHttps(value_info.value)

\* _resolve_url_conflict
ResolveUrlConflict(self, conflict) ==
    LET https_values == SelectSeq(conflict.values, IsHttpsCandidate) IN
    IF https_values # <<>>
    THEN [ field         |-> conflict.field,
           chosen_value  |-> https_values[1].value,
           chosen_source |-> https_values[1].source,
           reason        |-> "URL HTTPS preferee",
           confidence    |-> 80,
           method        |-> "url_preference" ]
    ELSE ResolveBySourcePriority(self, conflict)

\* any(form in name for form in legal_forms) on an upper-cased name: of the
\* forms 'SA', 'SARL', 'SAS', 'Inc', 'Corp', 'LLC', 'Ltd' only those written in
\* capitals can occur in it
ContainsLegalForm(upper_name) == upper_name \in {"APPLE SARL"}

IsLegalFormCandidate(value_info) == ContainsLegalForm(Upper(value_info.value))

\* _resolve_name_conflict
ResolveNameConflict(self, conflict) ==
    LET legal_values == SelectSeq(conflict.values, IsLegalFormCandidate) IN
    IF legal_values # <<>>
    THEN [ field         |-> conflict.field,
           chosen_value  |-> legal_values[1].value,
           chosen_source |-> legal_values[1].source,
           reason        |-> "Nom avec forme juridique",
           confidence    |-> 70,
           method        |-> "name_preference" ]
    ELSE ResolveBySourcePriority(self, conflict)

\* _resolve_single_conflict
ResolveSingleConflict(self, conflict) ==
    IF Len(conflict.values) = 0 THEN None
    ELSE IF conflict.field = "siren" THEN ResolveBySourcePriority(self, conflict)
    ELSE IF conflict.field = "url" THEN ResolveUrlConflict(self, conflict)
    ELSE IF conflict.field = "name" THEN ResolveNameConflict(self, conflict)
    ELSE ResolveByConfidence(self, conflict)

\* the weight of a resolution in _calculate_resolution_confidence, in tenths
MethodWeight(method) ==
    IF method = "source_priority" THEN 12
    ELSE IF method \in {"url_preference", "name_preference"} THEN 8
    ELSE 10

RECURSIVE WeightedSum(_, _)
WeightedSum(resolutions, weighted) ==
    IF resolutions = <<>> THEN 0
    ELSE (IF weighted THEN Head(resolutions).confidence ELSE 1)
            * MethodWeight(Head(resolutions).method)
         + WeightedSum(Tail(resolutions), weighted)

\* _calculate_resolution_confidence, as the fraction num/den
CalculateResolutionConfidence(resolutions) ==
    IF Len(resolutions) = 0 THEN [num |-> 0, den |-> 1]
    ELSE [num |-> WeightedSum(resolutions, TRUE), den |-> WeightedSum(resolutions, FALSE)]

\* the loop of ToolResolveConflicts.run
RECURSIVE ResolveAll(_, _, _, _)
ResolveAll(self, conflicting_data, resolved_data, resolutions) ==
    IF Len(conflicting_data) = 0
    THEN [resolved_data |-> resolved_data, resolutions |-> resolutions]
    ELSE LET conflict == Head(conflicting_data) IN
         IF Len(conflict.values) = 0
         THEN ResolveAll(self, Tail(conflicting_data), resolved_data, resolutions)
         ELSE LET resolution == ResolveSingleConflict(self, conflict) IN
              ResolveAll(self, Tail(conflicting_data),
                         Put(resolved_data, conflict.field, resolution.chosen_value),
                         Append(resolutions, resolution))

ToolResolveRunLearning(self, conflicting_data) ==
    LET all == ResolveAll(self, conflicting_data, <<>>, <<>>) IN
    [ self   |-> [self EXCEPT !.source_priorities.web = Scale],
      result |-> [ resolved_data      |-> all.resolved_data,
                   resolutions        |-> all.resolutions,
                   confidence         |-> CalculateResolutionConfidence(all.resolutions),
                   conflicts_resolved |-> Len(all.resolutions) ] ]

\* ToolResolveConflicts.run, execution_time left out: the resolver object as
\* the call leaves it, and the returned dict
ToolResolveRun(self, conflicting_data) ==
    IF Len(conflicting_data) = 0
    THEN [ self   |-> self,
           result |-> [ resolved_data |-> <<>>,
                        resolutions   |-> <<>>,
                        confidence    |-> [num |-> 0, den |-> 1],
                        error         |-> "Aucun conflit a resoudre" ] ]
    ELSE LET all == ResolveAll(self, conflicting_data, <<>>, <<>>) IN
         [ self   |-> self,
           result |-> [ resolved_data      |-> all.resolved_data,
                        resolutions        |-> all.resolutions,
                        confidence         |-> CalculateResolutionConfidence(all.resolutions),
                        conflicts_resolved |-> Len(all.resolutions) ] ]

\* the reconciliation tools before any call
ToolsIdle ==
    /\ sources = [data |-> <<>>, order |-> <<>>]
    /\ detected = <<>>
    /\ resolver = ToolResolveConflictsInit
    /\ resolve_calls = 0
    /\ resolved = <<>>
    /\ score_call = <<>>

\* ------------------------------------------------------------------------
\* The agents' side before any agent has been executed
\* ------------------------------------------------------------------------
AgentsFresh(enterprise_name, has_cache) ==
    /\ context = TaskContext(enterprise_name, DefaultMaxDepth, has_cache)
    /\ agent_state = [a \in Agents |-> "idle"]
    /\ pc = [a \in Agents |-> "ready"]
    /\ pending = <<>>
    /\ executions = [a \in Agents |-> 0]
    /\ returned = [a \in Agents |-> <<>>]
    /\ posted = [a \in Agents |-> <<>>]
    /\ redis = <<>>
    /\ constructed = <<>>
    /\ cache = CacheManagerInit(has_cache)
    /\ cache_log = <<>>
    /\ calls = [get |-> 0, set |-> 0, delete |-> 0, invalidate_pattern |-> 0]
    /\ shadow = [written |-> <<>>, zero_ttl |-> {}]

AgentsIdle == AgentsFresh("LVMH", FALSE)

\* ------------------------------------------------------------------------
\* Task graph helpers (used by the properties only)
\* ------------------------------------------------------------------------
Built == DOMAIN tasks

DepSet(t) == {tasks[t].dependencies[i] : i \in 1..Len(tasks[t].dependencies)}

RECURSIVE ReachFrom(_, _)
ReachFrom(S, n) ==
    IF n = 0 THEN S
    ELSE ReachFrom(S \cup UNION {DepSet(t) : t \in S \cap Built}, n - 1)

\* t depends, directly or through other tasks, on itself
OnCycle(t) ==
    t \in Built /\ t \in ReachFrom(DepSet(t), Cardinality(TaskIds))

HasCycle == \E t \in Built : OnCycle(t)

\* ------------------------------------------------------------------------
\* Actions: building the task graph and running sessions
\* ------------------------------------------------------------------------
\* A caller constructs an AgentTask and declares its dependencies. The graph
\* is built before the run: no task is added once a session has been executed.
NewTask(t, priority, deps) ==
    /\ t \notin DOMAIN tasks
    /\ sessions = <<>>
    /\ tasks' = [x \in DOMAIN tasks \cup {t} |->
                    IF x = t
                    THEN [AgentTaskInit(t, priority) EXCEPT !.dependencies = deps]
                    ELSE tasks[x]]
    /\ UNCHANGED <<engine, sessions, can_run_call>>
    /\ UNCHANGED agentVars
    /\ UNCHANGED toolVars

\* _create_context: depth 0, max_depth from the session config, no cache
CreateContext(enterprise_name, session_config) ==
    TaskContext(enterprise_name, ConfigGet(session_config, "max_depth", DefaultMaxDepth),
                FALSE)

SessionConfigs == {<<>>}
EnterpriseNames == {"LVMH", ""}

\* execute_session: creates the context and returns; it has no suspension
\* point that yields to another coroutine, so it is one step. The record kept
\* is the returned dict together with the context the call built and dropped.
ExecuteSessionResult(enterprise_name, session_config) ==
    [ enterprise_name |-> enterprise_name,
      status          |-> "initialized",
      context         |-> CreateContext(enterprise_name, session_config) ]

ExecuteSessionSharedContext(enterprise_name, session_config) ==
    /\ Len(sessions) < MaxSessions
    /\ sessions' = Append([i \in 1..Len(sessions) |->
                              [sessions[i] EXCEPT
                                  !.context = CreateContext(enterprise_name, session_config)]],
                          ExecuteSessionResult(enterprise_name, session_config))
    /\ UNCHANGED <<engine, tasks, can_run_call>>
    /\ UNCHANGED agentVars
    /\ UNCHANGED toolVars

ExecuteSession(enterprise_name, session_config) ==
    /\ Len(sessions) < MaxSessions
    /\ sessions' = Append(sessions, ExecuteSessionResult(enterprise_name, session_config))
    /\ UNCHANGED <<engine, tasks, can_run_call>>
    /\ UNCHANGED agentVars
    /\ UNCHANGED toolVars

NewTaskStep ==
    \E t \in TaskIds, p \in TaskPriority, d \in SeqsUpTo(TaskIds, MaxDeps) :
        NewTask(t, p, d)

ExecuteSessionStep ==
    \E n \in EnterpriseNames, c \in SessionConfigs : ExecuteSession(n, c)

Init ==
    /\ \E config \in EngineConfigs : engine = OrchestrationEngineInit(config)
    /\ tasks = <<>>
    /\ sessions = <<>>
    /\ can_run_call = <<>>
    /\ AgentsIdle
    /\ ToolsIdle

Next ==
    \/ NewTaskStep
    \/ ExecuteSessionStep

Spec == Init /\ [][Next]_vars

\* ------------------------------------------------------------------------
\* can_run as a function of its inputs
\* ------------------------------------------------------------------------
CanRunTask == "t1"

CanRunCall(t, completed_tasks) ==
    /\ t \in DOMAIN tasks
    /\ can_run_call' = << [ task            |-> t,
                            completed_tasks |-> completed_tasks,
                            result          |-> can_run(tasks[t].dependencies,
                                                        completed_tasks) ] >>
    /\ UNCHANGED <<engine, tasks, sessions>>
    /\ UNCHANGED agentVars
    /\ UNCHANGED toolVars

CanRunStep ==
    \E t \in TaskIds, c \in SeqsUpTo(TaskIds, MaxLen) : CanRunCall(t, c)

InitCanRun ==
    /\ \E config \in EngineConfigs : engine = OrchestrationEngineInit(config)
    /\ \E d \in SeqsUpTo(TaskIds, MaxLen) :
          tasks = [t \in {CanRunTask} |->
                      [AgentTaskInit(t, 2) EXCEPT !.dependencies = d]]
    /\ sessions = <<>>
    /\ can_run_call = <<>>
    /\ AgentsIdle
    /\ ToolsIdle

NextCanRun == CanRunStep

SpecCanRun == InitCanRun /\ [][NextCanRun]_vars

\* ------------------------------------------------------------------------
\* Agent executions. A coroutine runs without interruption up to an await that
\* really suspends; the only such awaits in the agents are the cache backend
\* calls, which AgentNormalization alone makes, and only when the context
\* carries a cache. Each action below is one uninterrupted stretch.
\* ------------------------------------------------------------------------
\* time.time() - start_time, in ticks of a clock that does not run backwards
ElapsedTimes == {1, 2}

\* byte lengths of a serialized value, on either side of the threshold
DataLens == {CompressionThreshold, CompressionThreshold + 1}

\* CacheableMixin.get_cache_key: f"{name}:{enterprise_name}:{hash of the config}",
\* with one config per session
CacheKey(name, ctx) == <<name, ctx.enterprise_name>>

\* self.config.get('cache_ttl', 3600) of an agent built with an empty config
DefaultCacheTtl == 3600

\* `if cached_result:`
Truthy(value) == value.kind # "None"

\* one CacheManager call or key expiry as the log keeps it; `standing` is the
\* value of the last successful set on the key still standing when the call
\* was made (<<>> if none) and `after_zero_ttl` tells whether the last set on
\* the key carried an explicit ttl=0
CacheEvent(op, category, key, fails, out) ==
    [ op             |-> op,
      category       |-> category,
      key            |-> key,
      connected      |-> cache.connected,
      fails          |-> fails,
      result         |-> out.result,
      raised         |-> out.raised,
      standing       |-> IF BuildKey(category, key) \in DOMAIN shadow.written
                         THEN <<shadow.written[BuildKey(category, key)]>> ELSE <<>>,
      after_zero_ttl |-> BuildKey(category, key) \in shadow.zero_ttl ]

\* await cache.get(category, key), from the call to its return
DoCacheGet(category, key, fails) ==
    LET out == CacheGetOutcome(cache, redis, category, key, fails) IN
    /\ cache' = [cache EXCEPT !.stats = out.stats]
    /\ cache_log' = <<CacheEvent("get", category, key, fails, out)>>
    /\ calls' = [calls EXCEPT !.get = @ + 1]
    /\ shadow' = [shadow EXCEPT !.zero_ttl = @ \ {BuildKey(category, key)}]
    /\ UNCHANGED redis

\* await cache.set(category, key, value, ttl), from the call to its return
DoCacheSet(category, key, value, ttl, data_len, fails) ==
    LET out == CacheSetOutcome(cache, redis, category, key, value, ttl, data_len, fails)
        cache_key == BuildKey(category, key)
    IN
    /\ cache' = [cache EXCEPT !.stats = out.stats]
    /\ redis' = out.store
    /\ cache_log' = <<CacheEvent("set", category, key, fails, out)>>
    /\ calls' = [calls EXCEPT !.set = @ + 1]
    /\ shadow' = [ written  |-> IF out.result THEN Put(shadow.written, cache_key, value)
                                ELSE Without(shadow.written, {cache_key}),
                   zero_ttl |-> IF ttl = <<0>> /\ cache.connected /\ ~fails
                                THEN shadow.zero_ttl \cup {cache_key}
                                ELSE shadow.zero_ttl \ {cache_key} ]

Invoke(a) ==
    /\ pc[a] = "ready"
    /\ executions[a] < MaxRuns
    /\ executions' = [executions EXCEPT ![a] = @ + 1]

ReturnOnlyEmptyEntry(a, value) ==
    /\ returned' = [returned EXCEPT ![a] = <<value>>]
    /\ agent_state' = [agent_state EXCEPT ![a] = "processing"]
    /\ context' = [context EXCEPT !.collected_data = Put(@, a, <<>>)]
    /\ UNCHANGED posted

\* return from execute without post_execute (except block, or cache hit)
ReturnOnly(a, value) ==
    /\ returned' = [returned EXCEPT ![a] = <<value>>]
    /\ agent_state' = [agent_state EXCEPT ![a] = "processing"]
    /\ UNCHANGED <<context, posted>>

\* await self.post_execute(result, context); return result
PostAndReturn(a, result) ==
    /\ context' = PostExecuteContext(context, a, result)
    /\ agent_state' = [agent_state EXCEPT ![a] = PostExecuteState(result)]
    /\ posted' = [posted EXCEPT ![a] = <<result>>]
    /\ returned' = [returned EXCEPT ![a] = <<result>>]

\* AgentNormalization.execute from its start: pre_execute, then the cache
\* lookup, at which it suspends when the context has a cache; without one
\* get_cached_result and cache_result return at once and execute runs through.
NormalizationBegin(elapsed) ==
    /\ Invoke("normalization")
    /\ IF context.has_cache
       THEN /\ pc' = [pc EXCEPT !["normalization"] = "cache_get"]
            /\ agent_state' = [agent_state EXCEPT !["normalization"] = "processing"]
            /\ UNCHANGED <<context, returned, posted>>
       ELSE /\ UNCHANGED pc
            /\ IF ~NormalizationValidateInput(context)
               THEN ReturnOnly("normalization",
                               FailureResult("normalization", elapsed, "Invalid input data"))
               ELSE LET r == NormalizationResult(context, elapsed) IN
                    IF IsResult(r)
                    THEN PostAndReturn("normalization", r)
                    ELSE ReturnOnly("normalization",
                                    FailureResult("normalization", elapsed, r.message))
    /\ UNCHANGED <<pending, constructed>>
    /\ UNCHANGED cacheVars
    /\ UNCHANGED schedVars
    /\ UNCHANGED toolVars

\* resumed with the backend's answer: a hit is returned as it is; on a miss the
\* input is validated, the result built, and cache_result suspends on the store
NormalizationAfterCacheGet(elapsed, fails) ==
    /\ pc["normalization"] = "cache_get"
    /\ DoCacheGet("agent_result", CacheKey("normalization", context), fails)
    /\ LET cached_result == CacheGetOutcome(cache, redis, "agent_result",
                                            CacheKey("normalization", context), fails).result
       IN
       IF Truthy(cached_result)
       THEN /\ ReturnOnly("normalization", cached_result)
            /\ pc' = [pc EXCEPT !["normalization"] = "ready"]
            /\ UNCHANGED pending
       ELSE IF ~NormalizationValidateInput(context)
       THEN /\ ReturnOnly("normalization",
                          FailureResult("normalization", elapsed, "Invalid input data"))
            /\ pc' = [pc EXCEPT !["normalization"] = "ready"]
            /\ UNCHANGED pending
       ELSE LET r == NormalizationResult(context, elapsed) IN
            IF IsResult(r)
            THEN /\ pending' = <<r>>
                 /\ pc' = [pc EXCEPT !["normalization"] = "cache_set"]
                 /\ UNCHANGED <<context, agent_state, returned, posted>>
            ELSE /\ ReturnOnly("normalization",
                               FailureResult("normalization", elapsed, r.message))
                 /\ pc' = [pc EXCEPT !["normalization"] = "ready"]
                 /\ UNCHANGED pending
    /\ UNCHANGED <<executions, constructed>>
    /\ UNCHANGED schedVars
    /\ UNCHANGED toolVars

\* resumed after the store (whose outcome cache_result ignores): post_execute,
\* return
NormalizationAfterCacheSet(data_len, fails) ==
    /\ pc["normalization"] = "cache_set"
    /\ DoCacheSet("agent_result", CacheKey("normalization", context), pending[1],
                  <<DefaultCacheTtl>>, data_len, fails)
    /\ PostAndReturn("normalization", pending[1])
    /\ pending' = <<>>
    /\ pc' = [pc EXCEPT !["normalization"] = "ready"]
    /\ UNCHANGED <<executions, constructed>>
    /\ UNCHANGED schedVars
    /\ UNCHANGED toolVars

\* AgentIdentification.execute, start to return
IdentificationExecute(elapsed) ==
    /\ Invoke("identification")
    /\ LET r == IdentificationTry(context, elapsed) IN
       IF IsResult(r)
       THEN PostAndReturn("identification", r)
       ELSE ReturnOnly("identification", FailureResult("identification", elapsed, r.message))
    /\ UNCHANGED <<pc, pending, constructed>>
    /\ UNCHANGED cacheVars
    /\ UNCHANGED schedVars
    /\ UNCHANGED toolVars

\* AgentValidation.execute, start to return
ValidationExecute(elapsed) ==
    /\ Invoke("validation")
    /\ IF ~ValidationValidateInput(context)
       THEN ReturnOnly("validation",
                       FailureResult("validation", elapsed,
                                     "Need at least 2 data sources to validate"))
       ELSE LET r == ValidationResult(context, elapsed) IN
            IF IsResult(r)
            THEN PostAndReturn("validation", r)
            ELSE ReturnOnly("validation", FailureResult("validation", elapsed, r.message))
    /\ UNCHANGED <<pc, pending, constructed>>
    /\ UNCHANGED cacheVars
    /\ UNCHANGED schedVars
    /\ UNCHANGED toolVars

\* a caller builds an AgentResult directly from a score and a time
ConfidenceInputs == {0 - 1, 0, 50, Scale, Scale + 1}
TimeInputs == {0 - 1, 0, 1}

ConstructResult(confidence_score, execution_time) ==
    /\ constructed' = << [ confidence_score |-> confidence_score,
                           execution_time   |-> execution_time,
                           outcome |-> AgentResult("caller", TRUE, <<>>, confidence_score,
                                                   execution_time, <<>>) ] >>
    /\ UNCHANGED <<context, agent_state, pc, pending, executions, returned, posted>>
    /\ UNCHANGED cacheVars
    /\ UNCHANGED schedVars
    /\ UNCHANGED toolVars

NormalizationBeginStep == \E e \in ElapsedTimes : NormalizationBegin(e)
NormalizationAfterCacheGetStep ==
    \E e \in ElapsedTimes, fails \in BOOLEAN : NormalizationAfterCacheGet(e, fails)
NormalizationAfterCacheSetStep ==
    \E data_len \in DataLens, fails \in BOOLEAN : NormalizationAfterCacheSet(data_len, fails)
IdentificationStep == \E e \in ElapsedTimes : IdentificationExecute(e)
ValidationStep == \E e \in ElapsedTimes : ValidationExecute(e)
ConstructResultStep ==
    \E c \in ConfidenceInputs, t \in TimeInputs : ConstructResult(c, t)

InitAgents ==
    /\ engine = OrchestrationEngineInit(<<>>)
    /\ tasks = <<>>
    /\ sessions = <<>>
    /\ can_run_call = <<>>
    /\ \E n \in AgentEnterpriseNames, c \in BOOLEAN : AgentsFresh(n, c)
    /\ ToolsIdle

NextAgents ==
    \/ NormalizationBeginStep
    \/ NormalizationAfterCacheGetStep
    \/ NormalizationAfterCacheSetStep
    \/ IdentificationStep
    \/ ValidationStep
    \/ ConstructResultStep

SpecAgents == InitAgents /\ [][NextAgents]_vars

\* ------------------------------------------------------------------------
\* The CacheManager called directly, as the infrastructure test and main do
\* ------------------------------------------------------------------------
CacheCategories == {"agent_result", "enterprise_data", "validation_results"}
CacheKeys == {<<"test_cache_key">>}
CachePatterns == {<<"test_cache_key">>, <<"*">>}

\* a JSON-native value, and an AgentResult as cache_result hands one over
TestData == [kind |-> "dict", company |-> "Test Corp", siren |-> "123456789"]
CacheValues ==
    {TestData, NormalizationResult(TaskContext("LVMH", DefaultMaxDepth, TRUE), 1)}

\* ttl arguments: None, an explicit 0, the test's 60 seconds
TestTtl == 60
CacheTtls == {<<>>, <<0>>, <<TestTtl>>}

TotalCalls == calls.get + calls.set + calls.delete + calls.invalidate_pattern

\* connect(): self.redis is set before the ping, so it is set whether or not
\* the ping succeeds; disconnect() closes the client without unsetting it
CacheConnect ==
    /\ ~cache.connected
    /\ cache' = [cache EXCEPT !.connected = TRUE]
    /\ UNCHANGED <<redis, cache_log, calls, shadow>>
    /\ UNCHANGED <<context, agent_state, pc, pending, executions, returned, posted,
                   constructed>>
    /\ UNCHANGED schedVars
    /\ UNCHANGED toolVars

CacheGet(category, key, fails) ==
    /\ TotalCalls < MaxCacheCalls
    /\ DoCacheGet(category, key, fails)
    /\ UNCHANGED <<context, agent_state, pc, pending, executions, returned, posted,
                   constructed>>
    /\ UNCHANGED schedVars
    /\ UNCHANGED toolVars

CacheSet(category, key, value, ttl, data_len, fails) ==
    /\ TotalCalls < MaxCacheCalls
    /\ DoCacheSet(category, key, value, ttl, data_len, fails)
    /\ UNCHANGED <<context, agent_state, pc, pending, executions, returned, posted,
                   constructed>>
    /\ UNCHANGED schedVars
    /\ UNCHANGED toolVars

CacheDelete(category, key, fails) ==
    /\ TotalCalls < MaxCacheCalls
    /\ LET out == CacheDeleteOutcome(cache, redis, category, key, fails) IN
       /\ cache' = [cache EXCEPT !.stats = out.stats]
       /\ redis' = out.store
       /\ cache_log' = <<CacheEvent("delete", category, key, fails, out)>>
       /\ calls' = [calls EXCEPT !.delete = @ + 1]
       /\ shadow' = [shadow EXCEPT !.written = Without(@, {BuildKey(category, key)})]
    /\ UNCHANGED <<context, agent_state, pc, pending, executions, returned, posted,
                   constructed>>
    /\ UNCHANGED schedVars
    /\ UNCHANGED toolVars

CacheInvalidatePattern(category, pattern, fails) ==
    /\ TotalCalls < MaxCacheCalls
    /\ LET out == CacheInvalidateOutcome(cache, redis, category, pattern, fails) IN
       /\ cache' = [cache EXCEPT !.stats = out.stats]
       /\ redis' = out.store
       /\ cache_log' = <<CacheEvent("invalidate_pattern", category, pattern, fails, out)>>
       /\ calls' = [calls EXCEPT !.invalidate_pattern = @ + 1]
       /\ shadow' = [shadow EXCEPT !.written = Without(@, DOMAIN redis \ DOMAIN out.store)]
    /\ UNCHANGED <<context, agent_state, pc, pending, executions, returned, posted,
                   constructed>>
    /\ UNCHANGED schedVars
    /\ UNCHANGED toolVars

\* the backend drops a key whose time to live has run out
ExpireKey(cache_key) ==
    /\ cache_key \in DOMAIN redis
    /\ redis' = Without(redis, {cache_key})
    /\ shadow' = [shadow EXCEPT !.written = Without(@, {cache_key})]
    /\ UNCHANGED <<cache, cache_log, calls>>
    /\ UNCHANGED <<context, agent_state, pc, pending, executions, returned, posted,
                   constructed>>
    /\ UNCHANGED schedVars
    /\ UNCHANGED toolVars

\* await cache.get_stats()
CacheGetStats(fails) ==
    /\ cache_log' = <<CacheEvent("get_stats", "", <<>>, fails,
                                 [result |-> GetStats(cache, fails), raised |-> FALSE])>>
    /\ UNCHANGED <<redis, cache, calls, shadow>>
    /\ UNCHANGED <<context, agent_state, pc, pending, executions, returned, posted,
                   constructed>>
    /\ UNCHANGED schedVars
    /\ UNCHANGED toolVars

CacheGetStatsStep == \E fails \in BOOLEAN : CacheGetStats(fails)

CacheGetStep ==
    \E c \in CacheCategories, k \in CacheKeys, fails \in BOOLEAN : CacheGet(c, k, fails)
CacheSetStep ==
    \E c \in CacheCategories, k \in CacheKeys, v \in CacheValues, ttl \in CacheTtls,
       data_len \in DataLens, fails \in BOOLEAN : CacheSet(c, k, v, ttl, data_len, fails)
CacheDeleteStep ==
    \E c \in CacheCategories, k \in CacheKeys, fails \in BOOLEAN : CacheDelete(c, k, fails)
CacheInvalidatePatternStep ==
    \E c \in CacheCategories, pattern \in CachePatterns, fails \in BOOLEAN :
        CacheInvalidatePattern(c, pattern, fails)
ExpireKeyStep == \E cache_key \in DOMAIN redis : ExpireKey(cache_key)

InitCache ==
    /\ engine = OrchestrationEngineInit(<<>>)
    /\ tasks = <<>>
    /\ sessions = <<>>
    /\ can_run_call = <<>>
    /\ AgentsIdle
    /\ ToolsIdle

NextCache ==
    \/ CacheConnect
    \/ CacheGetStep
    \/ CacheSetStep
    \/ CacheDeleteStep
    \/ CacheInvalidatePatternStep
    \/ CacheGetStatsStep
    \/ ExpireKeyStep

SpecCache == InitCache /\ [][NextCache]_vars

\* ------------------------------------------------------------------------
\* Reconciliation of hand-built sources: AgentValidation.execute against a
\* context whose collected_data was filled in by hand, as
\* test_agent_validation_detailed does, and ToolValidateConsistency.run on
\* the same data
\* ------------------------------------------------------------------------
MaxSources == 3

SourceNames == {"normalization", "identification", "inpi"}
SirenValues == {TestSiren, OtherSiren, PaddedSiren}
SourceConfidences == {60, 80}

\* what one source reports: the keys the detectors read, each given or left out
SourceData ==
    [{} -> {}]
        \cup [{"siren"} -> SirenValues]
        \cup [{"confidence_score"} -> SourceConfidences]
        \cup { [siren |-> s, confidence_score |-> c] :
                 s \in SirenValues, c \in SourceConfidences }

\* the orders a dict of up to MaxSources sources can iterate in
SourceOrders ==
    { o \in SeqsUpTo(SourceNames, MaxSources) :
        \A i, j \in 1..Len(o) : i # j => o[i] # o[j] }

\* the orders the set of common fields can iterate in
FieldOrders == {<<"siren", "confidence_score">>, <<"confidence_score", "siren">>}

\* TaskContext(...) followed by context.collected_data = {...}
ReconcileContext(data, order) ==
    [ TaskContext("LVMH", DefaultMaxDepth, FALSE) EXCEPT
        !.collected_data = data, !.collected_order = order ]

\* tool.run({'data_sources': ...})
ToolValidateConsistencyRun(fields) ==
    /\ detected' = << [ fields |-> fields,
                        result |-> ToolValidateRun(sources.data, sources.order, fields) ] >>
    /\ UNCHANGED <<sources, resolver, resolve_calls, resolved, score_call>>
    /\ UNCHANGED agentVars
    /\ UNCHANGED schedVars

ToolValidateConsistencyStep == \E fields \in FieldOrders : ToolValidateConsistencyRun(fields)

InitReconcile ==
    /\ engine = OrchestrationEngineInit(<<>>)
    /\ tasks = <<>>
    /\ sessions = <<>>
    /\ can_run_call = <<>>
    /\ \E order \in SourceOrders :
          \E data \in [{order[i] : i \in 1..Len(order)} -> SourceData] :
             /\ sources = [data |-> data, order |-> order]
             /\ context = ReconcileContext(data, order)
    /\ agent_state = [a \in Agents |-> "idle"]
    /\ pc = [a \in Agents |-> "ready"]
    /\ pending = <<>>
    /\ executions = [a \in Agents |-> 0]
    /\ returned = [a \in Agents |-> <<>>]
    /\ posted = [a \in Agents |-> <<>>]
    /\ redis = <<>>
    /\ constructed = <<>>
    /\ cache = CacheManagerInit(FALSE)
    /\ cache_log = <<>>
    /\ calls = [get |-> 0, set |-> 0, delete |-> 0, invalidate_pattern |-> 0]
    /\ shadow = [written |-> <<>>, zero_ttl |-> {}]
    /\ detected = <<>>
    /\ resolver = ToolResolveConflictsInit
    /\ resolve_calls = 0
    /\ resolved = <<>>
    /\ score_call = <<>>

NextReconcile ==
    \/ ValidationStep
    \/ ToolValidateConsistencyStep

SpecReconcile == InitReconcile /\ [][NextReconcile]_vars

\* ------------------------------------------------------------------------
\* Resolution: ToolResolveConflicts.run and _resolve_conflicts_fake on lists
\* of conflicts
\* ------------------------------------------------------------------------
MaxCandidates == 2
MaxResolveCalls == 2
MaxAgentConflicts == 2

ConflictFields == {"siren", "url", "name", "address"}
CandidateSources == {"inpi", "web", "registre"}
CandidateConfidences == {60, 80}

FieldValues(field) ==
    CASE field = "siren" -> {TestSiren, OtherSiren}
      [] field = "url"   -> {"https://www.apple.com", "https://apple.com", "http://apple.com"}
      [] field = "name"  -> {"Apple Inc", "Apple SARL", "Apple"}
      [] OTHER           -> {"1 rue A", "2 rue B"}

\* the entries of a conflict's 'values' list
Candidates(field) ==
    { [value |-> v, source |-> s, confidence |-> c] :
        v \in FieldValues(field), s \in CandidateSources, c \in CandidateConfidences }

Conflicts ==
    UNION { { [field |-> f, values |-> v] : v \in SeqsUpTo(Candidates(f), MaxCandidates) } :
            f \in ConflictFields }

\* the conflicting_data of test_tool_resolve_conflicts
TestConflicts ==
    << [ field  |-> "siren",
         values |-> << [value |-> TestSiren, source |-> "inpi", confidence |-> 90],
                       [value |-> OtherSiren, source |-> "web", confidence |-> 60] >> ],
       [ field  |-> "url",
         values |-> << [value |-> "https://www.apple.com", source |-> "web",
                        confidence |-> 80],
                       [value |-> "https://apple.com", source |-> "api",
                        confidence |-> 70] >> ] >>

\* the lists the resolver is run on: none, one conflict, or one conflict
\* followed by the test's conflict on the URL
ConflictLists ==
    {<<>>, TestConflicts}
        \cup {<<c>> : c \in Conflicts}
        \cup {<<c, TestConflicts[2]>> : c \in Conflicts}

\* the conflicts _detect_conflicts_fake can hand to _resolve_conflicts_fake
SirenMismatches ==
    { [ type |-> "siren_mismatch", field |-> "siren",
        value1 |-> s, source1 |-> "normalization",
        value2 |-> s, source2 |-> "identification", severity |-> "low" ] :
      s \in {TestSiren, OtherSiren} }

LowConfidences ==
    { [ type |-> "low_confidence", field |-> "confidence",
        value1 |-> a, source1 |-> "normalization",
        value2 |-> b, source2 |-> "identification", severity |-> "medium" ] :
      a, b \in {0, 60} }

\* resolver.run({'conflicting_data': ...}), the call that is remembered
ResolverCall(conflicting_data) ==
    LET out == ToolResolveRun(resolver, conflicting_data) IN
    /\ Len(resolved) = 0
    /\ resolver' = out.self
    /\ resolve_calls' = resolve_calls + 1
    /\ resolved' = << [ tool   |-> "resolve_conflicts",
                        input  |-> conflicting_data,
                        output |-> out.result ] >>
    /\ UNCHANGED <<sources, detected, score_call>>
    /\ UNCHANGED agentVars
    /\ UNCHANGED schedVars

\* any other run of the same resolver object, before or after
ResolverCallOther(conflicting_data) ==
    LET out == ToolResolveRun(resolver, conflicting_data) IN
    /\ resolve_calls < MaxResolveCalls
    /\ resolver' = out.self
    /\ resolve_calls' = resolve_calls + 1
    /\ UNCHANGED <<sources, detected, resolved, score_call>>
    /\ UNCHANGED agentVars
    /\ UNCHANGED schedVars

\* the remembered run made a second time
ResolverCallAgain ==
    /\ Len(resolved) = 1
    /\ resolved[1].tool = "resolve_conflicts"
    /\ LET out == ToolResolveRun(resolver, resolved[1].input) IN
       /\ resolver' = out.self
       /\ resolved' = Append(resolved, [ tool   |-> "resolve_conflicts",
                                         input  |-> resolved[1].input,
                                         output |-> out.result ])
    /\ resolve_calls' = resolve_calls + 1
    /\ UNCHANGED <<sources, detected, score_call>>
    /\ UNCHANGED agentVars
    /\ UNCHANGED schedVars

\* await agent._resolve_conflicts_fake(conflicts), the call that is remembered
AgentResolveCall(conflicts) ==
    /\ Len(resolved) = 0
    /\ resolved' = << [ tool   |-> "validation",
                        input  |-> conflicts,
                        output |-> ResolveConflictsFake(conflicts) ] >>
    /\ UNCHANGED <<sources, detected, resolver, resolve_calls, score_call>>
    /\ UNCHANGED agentVars
    /\ UNCHANGED schedVars

\* the same call made a second time
AgentResolveAgain ==
    /\ Len(resolved) = 1
    /\ resolved[1].tool = "validation"
    /\ resolved' = Append(resolved, [ tool   |-> "validation",
                                      input  |-> resolved[1].input,
                                      output |-> ResolveConflictsFake(resolved[1].input) ])
    /\ UNCHANGED <<sources, detected, resolver, resolve_calls, score_call>>
    /\ UNCHANGED agentVars
    /\ UNCHANGED schedVars

ResolverCallStep ==
    /\ Len(resolved) = 0
    /\ \E conflicting_data \in ConflictLists : ResolverCall(conflicting_data)

ResolverCallOtherStep ==
    \E conflicting_data \in {<<>>, TestConflicts} : ResolverCallOther(conflicting_data)

AgentResolveCallStep ==
    /\ Len(resolved) = 0
    /\ \E s \in SeqsUpTo(SirenMismatches, MaxAgentConflicts),
          l \in SeqsUpTo(LowConfidences, 1) :
          AgentResolveCall(s \o l)

InitResolve ==
    /\ engine = OrchestrationEngineInit(<<>>)
    /\ tasks = <<>>
    /\ sessions = <<>>
    /\ can_run_call = <<>>
    /\ AgentsIdle
    /\ ToolsIdle

NextResolve ==
    \/ ResolverCallStep
    \/ ResolverCallOtherStep
    \/ ResolverCallAgain
    \/ AgentResolveCallStep
    \/ AgentResolveAgain

SpecResolve == InitResolve /\ [][NextResolve]_vars

\* ------------------------------------------------------------------------
\* _calculate_consistency_score on its own
\* ------------------------------------------------------------------------
MaxScoreSources == 5
MaxScoreConflicts == 5

\* await agent._calculate_consistency_score(collected_data, conflicts, resolved)
\* with n_sources sources, n_conflicts conflicts and n_resolved resolutions
ConsistencyScoreCall(n_sources, n_conflicts, n_resolved) ==
    /\ score_call' = << [ n_sources   |-> n_sources,
                          n_conflicts |-> n_conflicts,
                          n_resolved  |-> n_resolved,
                          score |-> CalculateConsistencyScore(n_sources, n_conflicts,
                                                              n_resolved) ] >>
    /\ UNCHANGED <<sources, detected, resolver, resolve_calls, resolved>>
    /\ UNCHANGED agentVars
    /\ UNCHANGED schedVars

ConsistencyScoreCallStep ==
    \E n_sources \in 0..MaxScoreSources, n_conflicts \in 0..MaxScoreConflicts :
        \E n_resolved \in 0..n_conflicts :
            ConsistencyScoreCall(n_sources, n_conflicts, n_resolved)

InitScore ==
    /\ engine = OrchestrationEngineInit(<<>>)
    /\ tasks = <<>>
    /\ sessions = <<>>
    /\ can_run_call = <<>>
    /\ AgentsIdle
    /\ ToolsIdle

NextScore == ConsistencyScoreCallStep

SpecScore == InitScore /\ [][NextScore]_vars

\* ------------------------------------------------------------------------
\* AgentIdentification run on a context whose normalization entry the caller
\* wrote by hand, as the detailed agent test does
\* ------------------------------------------------------------------------
NormalizedNames == {"", "LVMH GROUP", "ACME"}
OriginalNames == {"LVMH"}
GivenSirens == {"", "123456789"}
GivenConfidences == {80}

\* the dictionaries a caller can put in collected_data['normalization']: any
\* of the four keys may be left out
NormalizationInputs ==
    UNION { { [ k \in keys |->
                  CASE k = "normalized_name"  -> n
                    [] k = "original_name"    -> o
                    [] k = "siren"            -> g
                    [] OTHER                  -> c ] :
                n \in NormalizedNames, o \in OriginalNames,
                g \in GivenSirens, c \in GivenConfidences } :
            keys \in SUBSET {"normalized_name", "original_name", "siren",
                             "confidence_score"} }

InitIdentify ==
    /\ engine = OrchestrationEngineInit(<<>>)
    /\ tasks = <<>>
    /\ sessions = <<>>
    /\ can_run_call = <<>>
    /\ \E nd \in NormalizationInputs :
          context = ReconcileContext([a \in {"normalization"} |-> nd],
                                     <<"normalization">>)
    /\ agent_state = [a \in Agents |-> "idle"]
    /\ pc = [a \in Agents |-> "ready"]
    /\ pending = <<>>
    /\ executions = [a \in Agents |-> 0]
    /\ returned = [a \in Agents |-> <<>>]
    /\ posted = [a \in Agents |-> <<>>]
    /\ redis = <<>>
    /\ constructed = <<>>
    /\ cache = CacheManagerInit(FALSE)
    /\ cache_log = <<>>
    /\ calls = [get |-> 0, set |-> 0, delete |-> 0, invalidate_pattern |-> 0]
    /\ shadow = [written |-> <<>>, zero_ttl |-> {}]
    /\ ToolsIdle

NextIdentify == IdentificationStep

SpecIdentify == InitIdentify /\ [][NextIdentify]_vars

\* ------------------------------------------------------------------------
\* Properties of the task wrapper and the engine
\* ------------------------------------------------------------------------
TerminalStates == {"completed", "failed", "cancelled"}

\* the forward edges of ExecutionState
ForwardTransitions ==
    { <<"pending", "running">>, <<"running", "completed">>, <<"running", "failed">>,
      <<"pending", "cancelled">>, <<"running", "cancelled">> }

InList(list, x) == \E j \in 1..Len(list) : list[j] = x

\* C1: can_run answers true only when every declared dependency is in the
\* completed list it was given, and a task in RUNNING has all its dependencies
\* in the engine's completed_tasks.
C1_DependenciesBeforeRun ==
    /\ \A i \in 1..Len(can_run_call) :
          can_run_call[i].result =>
              \A d \in DepSet(can_run_call[i].task) :
                  InList(can_run_call[i].completed_tasks, d)
    /\ \A t \in Built :
          tasks[t].state = "running" =>
              \A d \in DepSet(t) : InList(engine.completed_tasks, d)

\* a task with two distinct dependencies was found runnable
C1_Witness ==
    \E i \in 1..Len(can_run_call) :
        /\ can_run_call[i].result
        /\ Cardinality(DepSet(can_run_call[i].task)) = 2

\* C4: a session run over a task graph with a dependency cycle is rejected: it
\* never returns an initialized session.
C4_CycleRejected ==
    \A i \in 1..Len(sessions) : HasCycle => sessions[i].status # "initialized"

\* C5: a task starts PENDING and its state only moves along the forward edges;
\* no task disappears or leaves a terminal state.
C5_StateMonotonic ==
    [][\A t \in TaskIds :
          /\ (t \notin DOMAIN tasks /\ t \in DOMAIN tasks') => tasks'[t].state = "pending"
          /\ t \in DOMAIN tasks =>
                /\ t \in DOMAIN tasks'
                /\ \/ tasks'[t].state = tasks[t].state
                   \/ <<tasks[t].state, tasks'[t].state>> \in ForwardTransitions]_vars

\* a task was constructed and a session has been executed since
C5_Witness ==
    /\ Len(sessions) > 0
    /\ \E t \in Built : tasks[t].state = "pending"

\* C6: when a run has ended no task is left PENDING or RUNNING.
C6_RunEndsWithAllTasksTerminal ==
    Len(sessions) > 0 => \A t \in Built : tasks[t].state \in TerminalStates

\* C7: with a session timeout of 0 and at least one task, after the run the
\* task is CANCELLED and the session context records a timeout error.
C7_ZeroTimeoutCancels ==
    (engine.session_timeout = 0 /\ Built # {}) =>
        \A i \in 1..Len(sessions) :
            /\ \A t \in Built : tasks[t].state = "cancelled"
            /\ InList(sessions[i].context.errors, "timeout")

\* ------------------------------------------------------------------------
\* Properties of the agents and the session context
\* ------------------------------------------------------------------------
ValidateInput(a, ctx) ==
    CASE a = "normalization"  -> NormalizationValidateInput(ctx)
      [] a = "identification" -> IdentificationValidateInput(ctx)
      [] a = "validation"     -> ValidationValidateInput(ctx)

\* C8: execute is never invoked on an agent whose validate_input is false for
\* the session context.
C8_InvalidInputNeverExecuted ==
    [][\A a \in Agents :
          executions'[a] > executions[a] => ValidateInput(a, context)]_vars

InRange(confidence_score, execution_time) ==
    0 <= confidence_score /\ confidence_score <= Scale /\ execution_time >= 0

\* C9: AgentResult(...) yields a result exactly when the confidence is within
\* [0, 1] and the execution time is not negative, and every AgentResult an
\* agent holds, records or returns has its confidence within [0, 1].
C9_ConfidenceInRange ==
    /\ \A i \in 1..Len(constructed) :
          IsResult(constructed[i].outcome)
              <=> InRange(constructed[i].confidence_score, constructed[i].execution_time)
    /\ \A a \in Agents :
          /\ \A i \in 1..Len(returned[a]) :
                IsResult(returned[a][i]) =>
                    InRange(returned[a][i].confidence_score, returned[a][i].execution_time)
          /\ \A i \in 1..Len(posted[a]) :
                InRange(posted[a][i].confidence_score, posted[a][i].execution_time)
    /\ \A i \in 1..Len(pending) :
          InRange(pending[i].confidence_score, pending[i].execution_time)

\* the Reconciler returned a successful result whose confidence is its
\* consistency_score, another agent returned a result with success=false, and
\* a direct construction with an out-of-range value was refused
C9_Witness ==
    /\ returned["validation"] # <<>>
    /\ IsResult(returned["validation"][1])
    /\ returned["validation"][1].success
    /\ returned["validation"][1].confidence_score
          = returned["validation"][1].data.consistency_score
    /\ \E a \in Agents :
          /\ returned[a] # <<>>
          /\ IsResult(returned[a][1])
          /\ ~returned[a][1].success
    /\ constructed # <<>>
    /\ ~IsResult(constructed[1].outcome)

\* C10: once an agent has gone through post_execute, collected_data holds its
\* data under its own name and metrics holds its confidence and timing,
\* whatever the other agents did in between.
C10_NoLostUpdate ==
    \A a \in Agents :
        posted[a] # <<>> =>
            /\ a \in DOMAIN context.collected_data
            /\ context.collected_data[a] = posted[a][1].data
            /\ MetricKey(a, "confidence") \in DOMAIN context.metrics
            /\ context.metrics[MetricKey(a, "confidence")] = posted[a][1].confidence_score
            /\ MetricKey(a, "execution_time") \in DOMAIN context.metrics
            /\ context.metrics[MetricKey(a, "execution_time")] = posted[a][1].execution_time

\* all three agents went through post_execute in a session with a cache, the
\* identification agent on its second call: its first ran while normalization
\* was suspended or before it
C10_Witness ==
    /\ context.has_cache
    /\ \A a \in Agents : posted[a] # <<>>
    /\ executions["identification"] = 2
    /\ executions["normalization"] = 1

\* a step of agent a's execute, and a step at which it returns
ExecuteStep(a) ==
    \/ executions'[a] > executions[a]
    \/ pc[a] # "ready" /\ pc'[a] # pc[a]

Returns(a) == ExecuteStep(a) /\ pc'[a] = "ready"

\* C11: no step of an agent's execute changes the session context: its
\* collected_data and metrics are not written from inside execute.
C11_ExecuteLeavesContext ==
    [][\A a \in Agents : ExecuteStep(a) => context' = context]_vars

\* C12: no execute call has returned with the agent still in PROCESSING: after
\* a return the agent is COMPLETED when the result has success=true and ERROR
\* when it has success=false.
C12_NoReturnInProcessing ==
    \A a \in Agents :
        (returned[a] # <<>> /\ pc[a] = "ready") =>
            /\ agent_state[a] # "processing"
            /\ IsResult(returned[a][1]) =>
                   agent_state[a] = PostExecuteState(returned[a][1])

\* C13: an execution that finds a cache hit returns the AgentResult, and leaves
\* the context and the agent's state, as an execution on a miss would (up to
\* the measured execution time).
C13_CacheTransparent ==
    [][(/\ pc["normalization"] = "cache_get"
        /\ pc'["normalization"] = "ready"
        /\ Truthy(cache_log'[1].result))
       => \E e \in ElapsedTimes :
             LET r == NormalizationResult(context, e) IN
             /\ returned'["normalization"] = <<r>>
             /\ context' = PostExecuteContext(context, "normalization", r)
             /\ agent_state'["normalization"] = PostExecuteState(r)]_vars

IsFailure(r) ==
    /\ IsResult(r)
    /\ ~r.success
    /\ r.confidence_score = 0
    /\ r.errors # <<>>

C15_FailureInContextErrors ==
    \A a \in Agents :
        (returned[a] # <<>> /\ IsResult(returned[a][1]) /\ ~returned[a][1].success) =>
            \E i \in 1..Len(returned[a][1].errors) :
                InList(context.errors, returned[a][1].errors[i])

\* C16: execute_session leaves the engine, the tasks and what every earlier
\* session returned and built as they were; the engine's completed_tasks never
\* carries a task over into another session.
C16_RunMutatesOwnContextOnly ==
    [][Len(sessions') > Len(sessions) =>
          /\ engine' = engine
          /\ tasks' = tasks
          /\ \A i \in 1..Len(sessions) : sessions'[i] = sessions[i]]_vars

\* two sessions for different enterprises were run on an engine with tasks
C16_Witness ==
    /\ Len(sessions) = 2
    /\ sessions[1].context.enterprise_name # sessions[2].context.enterprise_name
    /\ Built # {}

\* ------------------------------------------------------------------------
\* Properties of the CacheManager
\* ------------------------------------------------------------------------
\* C17: a get on a connected manager whose backend call succeeds, made while
\* the value of a successful set on the same category and key still stands
\* (no later set, delete, invalidation or expiry), returns that value.
C17_RoundTrip ==
    \A i \in 1..Len(cache_log) :
        (/\ cache_log[i].op = "get"
         /\ cache_log[i].connected
         /\ ~cache_log[i].fails
         /\ cache_log[i].standing # <<>>)
        => cache_log[i].result = cache_log[i].standing[1]

\* what each CacheManager method returns when it has nothing to give
AbsentResult(event) ==
    CASE event.op = "get"                -> event.result = None
      [] event.op \in {"set", "delete"}  -> event.result = FALSE
      [] event.op = "invalidate_pattern" -> event.result = 0
      [] OTHER -> TRUE

\* C18: no CacheManager call raises, and a call made without a connection or
\* whose backend operation fails returns absent (get), false (set, delete)
\* or 0 (invalidate_pattern).
C18_NoExceptionPropagates ==
    \A i \in 1..Len(cache_log) :
        /\ ~cache_log[i].raised
        /\ (cache_log[i].fails \/ ~cache_log[i].connected) => AbsentResult(cache_log[i])

\* a get whose backend call failed while the key held a live value
C18_Witness ==
    /\ cache_log # <<>>
    /\ cache_log[1].op = "get"
    /\ cache_log[1].connected
    /\ cache_log[1].fails
    /\ cache_log[1].standing # <<>>
    /\ BuildKey(cache_log[1].category, cache_log[1].key) \in DOMAIN redis

\* C19: hits + misses equals the number of get calls made.
C19_HitsPlusMissesCountGets ==
    cache.stats.hits + cache.stats.misses = calls.get

\* C20: a get that follows a set with an explicit ttl=0 on the same category
\* and key returns absent.
C20_ZeroTtlThenAbsent ==
    \A i \in 1..Len(cache_log) :
        (cache_log[i].op = "get" /\ cache_log[i].after_zero_ttl)
        => cache_log[i].result = None

\* C21: get_stats reports the four counters as they stand and hit_rate =
\* hits/(hits+misses), or 0 when no get was counted, within [0, 1]; and no
\* counter ever decreases.
C21_StatsReport ==
    /\ [](\A i \in 1..Len(cache_log) :
            cache_log[i].op = "get_stats" =>
                LET r == cache_log[i].result
                    total == cache.stats.hits + cache.stats.misses
                IN  /\ r.hits = cache.stats.hits
                    /\ r.misses = cache.stats.misses
                    /\ r.sets = cache.stats.sets
                    /\ r.deletes = cache.stats.deletes
                    /\ r.hit_rate.den > 0
                    /\ IF total > 0
                       THEN r.hit_rate.num * total = cache.stats.hits * r.hit_rate.den
                       ELSE r.hit_rate.num = 0
                    /\ 0 <= r.hit_rate.num
                    /\ r.hit_rate.num <= r.hit_rate.den)
    /\ [][/\ cache'.stats.hits >= cache.stats.hits
          /\ cache'.stats.misses >= cache.stats.misses
          /\ cache'.stats.sets >= cache.stats.sets
          /\ cache'.stats.deletes >= cache.stats.deletes]_vars

\* get_stats was called after a hit, a miss and a set had been counted
C21_Witness ==
    /\ cache_log # <<>>
    /\ cache_log[1].op = "get_stats"
    /\ cache_log[1].result.hits = 1
    /\ cache_log[1].result.misses = 1
    /\ cache_log[1].result.sets = 1

\* the keys of a category that a pattern names
InPattern(category, pattern, c, k) ==
    /\ c = category
    /\ pattern = <<"*">> \/ pattern = k

\* C22: after an invalidate_pattern(category, pattern) whose backend calls
\* succeeded, a get of any key of that category matching the pattern returns
\* absent, and a get of any other key returns what it returned before.
C22_InvalidateRemovesMatchingOnly ==
    [][\A category \in CacheCategories, pattern \in CachePatterns :
          (/\ calls'.invalidate_pattern = calls.invalidate_pattern + 1
           /\ cache_log'[1].op = "invalidate_pattern"
           /\ cache_log'[1].category = category
           /\ cache_log'[1].key = pattern
           /\ cache_log'[1].connected
           /\ ~cache_log'[1].fails)
          => \A c \in CacheCategories, k \in CacheKeys :
                IF InPattern(category, pattern, c, k)
                THEN CacheGetOutcome(cache', redis', c, k, FALSE).result = None
                ELSE CacheGetOutcome(cache', redis', c, k, FALSE).result
                        = CacheGetOutcome(cache, redis, c, k, FALSE).result]_vars

\* C30: execute_session called with an empty enterprise name does not return
\* an initialized session.
C30_EmptyNameRejected ==
    \A i \in 1..Len(sessions) :
        sessions[i].enterprise_name = "" => sessions[i].status # "initialized"

\* the result of AgentValidation's first run on the hand-built sources
FirstValidation == returned["validation"][1]

FirstValidationDone ==
    /\ executions["validation"] = 1
    /\ Len(returned["validation"]) = 1
    /\ returned["validation"][1].success

\* the two sources both report a siren
BothReportSiren ==
    /\ Len(sources.order) = 2
    /\ \A i \in 1..2 : "siren" \in DOMAIN sources.data[sources.order[i]]

\* both sources are confident enough for no low-confidence conflict
BothConfident ==
    \A i \in 1..Len(sources.order) :
        /\ "confidence_score" \in DOMAIN sources.data[sources.order[i]]
        /\ sources.data[sources.order[i]].confidence_score >= LowConfidenceThreshold

\* the highest consistency score n sources can get
MaxScoreFor(n) ==
    CHOOSE best \in 0..Scale :
        /\ \E c \in 0..MaxScoreConflicts : \E r \in 0..c :
              CalculateConsistencyScore(n, c, r) = best
        /\ \A c \in 0..MaxScoreConflicts : \A r \in 0..c :
              CalculateConsistencyScore(n, c, r) <= best

\* C23: two sources reporting the same siren and agreeing on everything else
\* make the validation agent detect no conflict and give the highest
\* consistency score two sources can get.
C23_SameSirenNoConflict ==
    (/\ FirstValidationDone
     /\ BothReportSiren
     /\ BothConfident
     /\ sources.data[sources.order[1]] = sources.data[sources.order[2]])
    => /\ Len(FirstValidation.data.conflicts_detected) = 0
       /\ FirstValidation.data.consistency_score = MaxScoreFor(2)

\* the conflicts of a list that are on one field
OnField(conflicts, field) == {i \in 1..Len(conflicts) : conflicts[i].field = field}

\* one critical conflict on the siren naming the two sources and their values
OneCriticalSirenConflict(conflicts) ==
    /\ Cardinality(OnField(conflicts, "siren")) = 1
    /\ \A i \in OnField(conflicts, "siren") :
          /\ conflicts[i].severity = "critical"
          /\ {<<conflicts[i].source1, conflicts[i].value1>>,
              <<conflicts[i].source2, conflicts[i].value2>>}
                = {<<sources.order[k], sources.data[sources.order[k]].siren>> : k \in 1..2}

\* the two sources report sirens that differ by more than blanks
SirensDiffer ==
    /\ BothReportSiren
    /\ Strip(sources.data[sources.order[1]].siren) # Strip(sources.data[sources.order[2]].siren)

\* C24: two sources reporting different sirens make conflict detection, by the
\* validation agent and by ToolValidateConsistency alike, report exactly one
\* conflict on the siren, of severity critical, naming both sources and both
\* values.
C24_DifferentSirenOneCritical ==
    /\ (FirstValidationDone /\ SirensDiffer)
          => OneCriticalSirenConflict(FirstValidation.data.conflicts_detected)
    /\ (Len(detected) = 1 /\ SirensDiffer)
          => OneCriticalSirenConflict(detected[1].result.conflicts)

\* the (field, unordered source pair) of each conflict of a list
ConflictPairs(conflicts) ==
    { <<conflicts[i].field, {conflicts[i].source1, conflicts[i].source2}>> :
        i \in 1..Len(conflicts) }

\* how often a list reports sources x and y on a field
TimesReported(conflicts, field, x, y) ==
    Cardinality({ i \in 1..Len(conflicts) :
                    /\ conflicts[i].field = field
                    /\ {conflicts[i].source1, conflicts[i].source2} = {x, y} })

\* sources x and y both report the field, with values that differ (for a
\* siren, by more than blanks)
Disagree(x, y, field) ==
    /\ x # y
    /\ field \in DOMAIN sources.data[x]
    /\ field \in DOMAIN sources.data[y]
    /\ IF field = "siren"
       THEN Strip(sources.data[x].siren) # Strip(sources.data[y].siren)
       ELSE sources.data[x][field] # sources.data[y][field]

\* the orders the same sources can be iterated in
Reorderings ==
    { o \in SourceOrders :
        {o[i] : i \in 1..Len(o)} = {sources.order[i] : i \in 1..Len(sources.order)} }

\* C26: a disagreement of two sources on a field is reported exactly once, and
\* the (field, unordered source pair) conflicts reported are the same for
\* every iteration order of the sources; for the validation agent, which
\* looks at the siren only, and for ToolValidateConsistency.
C26_ReportedOnceAnyOrder ==
    /\ FirstValidationDone
          => /\ \A x, y \in DOMAIN sources.data :
                   Disagree(x, y, "siren")
                      => TimesReported(FirstValidation.data.conflicts_detected,
                                       "siren", x, y) = 1
             /\ \A o \in Reorderings :
                   ConflictPairs(DetectConflictsFake(ReconcileContext(sources.data, o)))
                      = ConflictPairs(FirstValidation.data.conflicts_detected)
    /\ (Len(detected) = 1 /\ Len(sources.order) >= 2)
          => /\ \A x, y \in DOMAIN sources.data :
                   \A field \in {"siren", "confidence_score"} :
                      Disagree(x, y, field)
                         => TimesReported(detected[1].result.conflicts, field, x, y) = 1
             /\ \A o \in Reorderings : \A fields \in FieldOrders :
                   ConflictPairs(DetectConflicts(sources.data, o, fields))
                      = ConflictPairs(detected[1].result.conflicts)

\* the candidates of the conflicts that have some
HasValues(conflict) == Len(conflict.values) > 0

\* the rank of a source in the priority table: authoritative registry above
\* API above web above manual above unknown, unlisted sources as unknown
SourceRank(source) ==
    CASE source = "inpi"     -> 6
      [] source = "official" -> 5
      [] source = "api"      -> 4
      [] source = "web"      -> 3
      [] source = "manual"   -> 2
      [] OTHER               -> 1

\* the resolution picked candidate j of the conflict
Picked(resolution, conflict, j) ==
    /\ conflict.values[j].value = resolution.chosen_value
    /\ conflict.values[j].source = resolution.chosen_source

C27_ConfidenceThenPriority ==
    \A k \in 1..Len(resolved) :
        resolved[k].tool = "resolve_conflicts" =>
            LET conflicts == SelectSeq(resolved[k].input, HasValues) IN
            \A i \in 1..Len(conflicts) :
                conflicts[i].field \notin {"siren", "url", "name"} =>
                    LET values == conflicts[i].values IN
                    \E j \in 1..Len(values) :
                        /\ Picked(resolved[k].output.resolutions[i], conflicts[i], j)
                        /\ \A m \in 1..Len(values) :
                              values[m].confidence <= values[j].confidence
                        /\ \A m \in 1..Len(values) :
                              values[m].confidence = values[j].confidence
                                 => SourceRank(values[m].source) <= SourceRank(values[j].source)

C29_ScoreBoundedMonotone ==
    \A i \in 1..Len(score_call) :
        LET n == score_call[i].n_sources
            c == score_call[i].n_conflicts
            r == score_call[i].n_resolved
            score == score_call[i].score
        IN  /\ 0 <= score
            /\ score <= Scale
            /\ CalculateConsistencyScore(n, c + 1, r) <= score
            /\ CalculateConsistencyScore(n, c + 1, r + 1) <= score
            /\ score <= CalculateConsistencyScore(n + 1, c, r)

\* a score strictly inside the range was computed for several sources with a
\* resolved conflict
C29_Witness ==
    /\ Len(score_call) = 1
    /\ score_call[1].n_sources = 2
    /\ score_call[1].n_conflicts = 1
    /\ score_call[1].n_resolved = 1
    /\ score_call[1].score = 35

\* some task of the graph declares a dependency on a task id the graph lacks
HasUnknownDependency == \E t \in Built : ~(DepSet(t) \subseteq Built)

\* C31: a session run over a graph in which a task depends on an unknown task
\* id is aborted: it never returns an initialized session.
C31_UnknownDependencyAborts ==
    \A i \in 1..Len(sessions) :
        HasUnknownDependency => sessions[i].status # "initialized"

\* C32: in a session driven by agent executions alone, metrics holds a
\* confidence and an execution-time entry for each agent that has an entry in
\* collected_data and for no other agent, the confidence within [0, 1] and the
\* time not negative, and collected_data holds under each agent's name the
\* data of the result that agent recorded last.
C32_MetricsMatchCollectedData ==
    /\ DOMAIN context.metrics
          = { MetricKey(a, what) :
                a \in DOMAIN context.collected_data,
                what \in {"confidence", "execution_time"} }
    /\ \A a \in DOMAIN context.collected_data :
          /\ InRange(context.metrics[MetricKey(a, "confidence")],
                     context.metrics[MetricKey(a, "execution_time")])
          /\ Len(posted[a]) = 1
          /\ context.collected_data[a] = posted[a][1].data

\* the three agents have each recorded a result, normalization a failed one
C32_Witness ==
    /\ DOMAIN context.collected_data = Agents
    /\ ~posted["normalization"][1].success
    /\ posted["validation"][1].success

\* C34: whenever normalization and identification have both recorded data
\* with a non-empty siren in the session's context, the two sirens are equal.
C34_SirensAgree ==
    (/\ "normalization" \in DOMAIN context.collected_data
     /\ "identification" \in DOMAIN context.collected_data
     /\ HasSiren(context.collected_data, "normalization")
     /\ HasSiren(context.collected_data, "identification"))
    => context.collected_data["normalization"].siren
          = context.collected_data["identification"].siren

\* normalization, then identification, recorded a siren for a name the fake
\* search knows
C34_Witness ==
    /\ context.enterprise_name = "LVMH"
    /\ context.collected_order = <<"normalization", "identification">>
    /\ HasSiren(context.collected_data, "normalization")
    /\ HasSiren(context.collected_data, "identification")
    /\ posted["identification"][1].success

\* the result the except block of an execute returns: nothing in data
IsHandlerResult(r) == IsFailure(r) /\ DOMAIN r.data = {}

\* C36: an execute that returns the result of its exception handler leaves
\* collected_data and metrics as they were before the call.
C36_FailureLeavesContext ==
    [][\A a \in Agents :
          (/\ Returns(a)
           /\ Len(returned'[a]) = 1
           /\ IsHandlerResult(returned'[a][1]))
          => /\ context'.collected_data = context.collected_data
             /\ context'.metrics = context.metrics]_vars

\* validation has returned from its exception handler in a session in which
\* normalization had recorded data
C36_Witness ==
    /\ Len(returned["validation"]) = 1
    /\ IsHandlerResult(returned["validation"][1])
    /\ DOMAIN context.collected_data = {"normalization"}
    /\ DOMAIN context.metrics # {}

\* C33: whenever identification's validate_input holds on the context, its
\* execute returns a successful result whose data holds a siren and a url,
\* whichever other fields the normalization entry has or lacks.
C33_IdentificationSucceeds ==
    [][(/\ Returns("identification")
        /\ IdentificationValidateInput(context))
       => /\ returned'["identification"][1].success
          /\ {"siren", "url"} \subseteq DOMAIN returned'["identification"][1].data]_vars

\* C39: a second successful run of validation on a context whose other
\* entries have not changed reports the conflicts and the consistency_score
\* of the first run.
C39_SecondRunSameScore ==
    [][(/\ Returns("validation")
        /\ Len(returned["validation"]) = 1
        /\ returned["validation"][1].success
        /\ returned'["validation"][1].success)
       => /\ returned'["validation"][1].data.conflicts_detected
                = returned["validation"][1].data.conflicts_detected
          /\ returned'["validation"][1].data.consistency_score
                = returned["validation"][1].data.consistency_score]_vars

\* the sequences that hold the candidates of `values`, each once, in any order
Rearrangements(values) ==
    { [i \in 1..Len(values) |-> values[p[i]]] :
        p \in { q \in [1..Len(values) -> 1..Len(values)] :
                  \A i, j \in 1..Len(values) : i # j => q[i] # q[j] } }

\* C38: the value the resolver chose for a conflict is the value it chooses
\* for the same candidates listed in any other order.
C38_ChoiceIgnoresOrder ==
    \A k \in 1..Len(resolved) :
        resolved[k].tool = "resolve_conflicts" =>
            LET conflicts == SelectSeq(resolved[k].input, HasValues) IN
            \A i \in 1..Len(conflicts) :
                \A values \in Rearrangements(conflicts[i].values) :
                    ResolveSingleConflict(resolver,
                        [field |-> conflicts[i].field, values |-> values]).chosen_value
                      = resolved[k].output.resolutions[i].chosen_value

\* get(category, key) would find an entry in the store
Stored(store, category, key) == BuildKey(category, key) \in DOMAIN store

\* C35: a set, delete or invalidate_pattern on one category leaves what a get
\* on any key of any other category finds as it was: an entry of one category
\* is neither returned nor removed through another.
C35_CategoriesSeparate ==
    [][\A c1 \in CacheCategories, c2 \in CacheCategories, k \in CacheKeys :
          (/\ c1 # c2
           /\ TotalCalls' = TotalCalls + 1
           /\ Len(cache_log') = 1
           /\ cache_log'[1].category = c2
           /\ cache_log'[1].op \in {"set", "delete", "invalidate_pattern"})
          => (Stored(redis', c1, k) <=> Stored(redis, c1, k))]_vars

====
